---- MODULE Spec2Model ----
(***************************************************************************)
(* Aegis agent: the session table shared with the XDP data plane, the      *)
(* gRPC surface that mutates it (grpc_server.rs), the rule manager         *)
(* (bpf.rs, and the add path of main.rs), the reaper and the data plane.   *)
(***************************************************************************)
EXTENDS Integers, Sequences, FiniteSets, TLC

VARIABLES
    host_le,            \* TRUE on a little-endian build target, FALSE on a big-endian one
    add_path,           \* the entry point that runs: "bpf" (Bpf::new, Bpf::add_rule) or "main" (main.rs)
    env_faults,         \* TRUE when the environment may fail (clock read, batch delete, misaligned buffer)
    now,                \* CLOCK_MONOTONIC, the clock the data plane stamps with
    sm,                 \* Session Map: session_key -> session_val
    refreshed,          \* history: monotonic time of the last write to each entry
    sub,                \* the submit_session handler
    ipc,                \* the ip_change handler
    mon,                \* the monitor_sessions handler
    subscribers,        \* number of forwarding tasks subscribed to the broadcaster
    rp,                 \* the reaper task
    next_tick,          \* monotonic time of the reaper's next tick
    modify_rules_lock,  \* holder of the Mutex around the modify_rules callback
    update_ip_lock,     \* holder of the Mutex around the update_ip callback
    hist,               \* history: the rule manager calls made directly, with the map around each
    chan,               \* the broadcast channel of snapshots (monitor_tx and its receivers)
    tasks,              \* the forwarding task and the mpsc queue of every monitor stream
    args,               \* the command line of the agent, args[1] the program name
    startup,            \* the start of main: Config::load and the arms its loop took
    config              \* the Config the agent runs with

build == <<host_le, add_path, env_faults>>

locks == <<modify_rules_lock, update_ip_lock>>

sb == <<chan, tasks>>

cfg == <<args, startup, config>>

vars == <<build, now, sm, refreshed, sub, ipc, mon, subscribers, rp, next_tick, locks, hist, sb, cfg>>

(***************************************************************************)
(* Bounds of the model and program constants.                              *)
(***************************************************************************)
MaxTime == 4            \* the monotonic clock stops advancing here
MaxEntries == 2         \* max_entries of the session map
MaxChanges == 1         \* longest IpChangeList
MaxSubscribers == 2     \* monitor streams opened
RuleTimeoutNs == 1      \* config.rule_timeout_ns, in clock units
CleanupInterval == 1    \* config.cleanup_interval_sec, in clock units
LazyUpdateTimeout == 1  \* config.lazy_update_timeout, in clock units
EpochOffset == 10       \* distance of the wall clock (Unix epoch) from the monotonic clock
NsPerSec == 1           \* nanoseconds per second, in clock units
WordMax == 15           \* u64::MAX, the largest timestamp and timeout, in clock units
I32Bound == 4           \* i32::MAX + 1, in seconds of the scaled clock
BroadcastChannelSize == 2   \* config.broadcast_channel_size
ForwardQueueSize == 2       \* capacity of the mpsc queue of a monitor stream
MaxArgs == 4                \* arguments on the command line after the program name
MaxTimeout == 3             \* largest rule_timeout_ns and lazy_update_timeout configured

U16Max == 65535
ControllerIp == 167772161       \* 10.0.0.1
ControllerPort == 443

\* 10.0.0.1 (the controller) and 10.0.0.99
PeerIps == {167772161, 167772259}
\* 10.0.0.5 and 10.0.0.2
SrcIps == {167772165, 167772162}
\* 10.0.0.9
DstIps == {167772169}
WirePorts == {22, 65535, 65536, 70000}

Remotes ==
    {[family |-> "none", ip |-> 0]}
    \cup [family : {"V4", "V6"}, ip : PeerIps]

LoginEvents ==
    [activate : BOOLEAN, src_ip : SrcIps, dst_ip : DstIps, dst_port : WirePorts]

(***************************************************************************)
(* Byte order.  u32::to_be / u16::to_be swap the bytes on a little-endian  *)
(* host and are the identity on a big-endian one.                          *)
(***************************************************************************)
swap_bytes32(x) ==
    ((x % 256) * 16777216) + (((x \div 256) % 256) * 65536)
    + (((x \div 65536) % 256) * 256) + ((x \div 16777216) % 256)

swap_bytes16(x) == ((x % 256) * 256) + ((x \div 256) % 256)

to_be32(x) == IF host_le THEN swap_bytes32(x) ELSE x

to_be16(x) == IF host_le THEN swap_bytes16(x) ELSE x

(***************************************************************************)
(* Session Map (a BPF hash map reached through libbpf-rs).                 *)
(***************************************************************************)
session_key(dest_ip, src_ip, dest_port) ==
    [dest_ip |-> dest_ip, src_ip |-> src_ip, dest_port |-> dest_port]

session_val(created_at_ns, last_seen_ns) ==
    [created_at_ns |-> created_at_ns, last_seen_ns |-> last_seen_ns]

\* an update that evicts an entry to make room for a new key in a full map
map_update_Evicts(m, k, v) ==
    IF k \notin DOMAIN m /\ Cardinality(DOMAIN m) >= MaxEntries
    THEN LET victim == CHOOSE x \in DOMAIN m : TRUE
         IN [ok |-> TRUE,
             map |-> [x \in (DOMAIN m \ {victim}) \cup {k} |-> IF x = k THEN v ELSE m[x]]]
    ELSE [ok |-> TRUE,
          map |-> [x \in DOMAIN m \cup {k} |-> IF x = k THEN v ELSE m[x]]]

\* MapCore::update(key, val, MapFlags::ANY): insert or overwrite; a new key in a full map fails.
map_update(m, k, v) ==
    IF k \notin DOMAIN m /\ Cardinality(DOMAIN m) >= MaxEntries
    THEN [ok |-> FALSE, map |-> m]
    ELSE [ok |-> TRUE,
          map |-> [x \in DOMAIN m \cup {k} |-> IF x = k THEN v ELSE m[x]]]

\* a delete that reports success and leaves the entry in the map
map_delete_KeepsEntry(m, k) ==
    IF k \in DOMAIN m THEN [ok |-> TRUE, map |-> m] ELSE [ok |-> FALSE, map |-> m]

\* MapCore::delete(key): deleting an absent key is an error (ENOENT).
map_delete(m, k) ==
    IF k \in DOMAIN m
    THEN [ok |-> TRUE, map |-> [x \in DOMAIN m \ {k} |-> m[x]]]
    ELSE [ok |-> FALSE, map |-> m]

\* the history variable follows the keys of the map
Stamp(h, m, written) ==
    [x \in DOMAIN m |-> IF x \in written \/ x \notin DOMAIN h THEN now ELSE h[x]]

(***************************************************************************)
(* Clocks.                                                                 *)
(***************************************************************************)
\* Bpf::get_ktime_ns: the monotonic reading, or the fallback 0 when clock_gettime fails.
get_ktime_ns == IF env_faults THEN {now, 0} ELSE {now}

\* SystemTime::now() since UNIX_EPOCH: the wall clock, which may be stepped between two reads.
SystemTime_now == {now + EpochOffset, now + EpochOffset + 1}

saturating_sub(a, b) == IF a >= b THEN a - b ELSE 0

(***************************************************************************)
(* Configuration: Config::default and Config::load (config.rs), and        *)
(* hostname_to_ip.  An Ipv4Addr is its four octets; the two timeouts are   *)
(* in clock units, NsPerSec of them to the second.                         *)
(***************************************************************************)
Config_default ==
    [iface_name |-> "eth0", controller_ip |-> <<172, 21, 0, 5>>, controller_port |-> 443,
     lazy_update_timeout |-> 1 * NsPerSec, cert_file |-> "certs/agent.pem",
     key_file |-> "certs/agent.key", ca_file |-> "certs/ca.pem",
     rule_timeout_ns |-> 60 * NsPerSec, cleanup_interval_sec |-> 30,
     broadcast_channel_size |-> 16, grpc_server_port |-> 50001]

\* u32::from(Ipv4Addr): the octets as one big-endian number
u32_from(ip) == (ip[1] * 16777216) + (ip[2] * 65536) + (ip[3] * 256) + ip[4]

\* the words that are decimal numbers, with their values
Decimals == ("8080" :> 8080) @@ ("70000" :> 70000)

\* the words that are dotted-quad addresses
Ipv4Literals == ("10.0.0.1" :> <<10, 0, 0, 1>>)

\* the names the resolver knows
Resolver == ("localhost" :> <<127, 0, 0, 1>>)

\* str::parse::<u16> taking the value modulo 2^16
parse_u16_Wrapping(s) ==
    IF s \in DOMAIN Decimals
    THEN [ok |-> TRUE, val |-> Decimals[s] % (U16Max + 1)]
    ELSE [ok |-> FALSE, val |-> 0]

\* str::parse::<u16>
parse_u16(s) ==
    IF s \in DOMAIN Decimals /\ Decimals[s] <= U16Max
    THEN [ok |-> TRUE, val |-> Decimals[s]]
    ELSE [ok |-> FALSE, val |-> 0]

\* str::parse::<u64> and, on a 64-bit target, str::parse::<usize>
parse_u64(s) ==
    IF s \in DOMAIN Decimals
    THEN [ok |-> TRUE, val |-> Decimals[s]]
    ELSE [ok |-> FALSE, val |-> 0]

\* Ipv4Addr::from_str
Ipv4Addr_from_str(s) ==
    IF s \in DOMAIN Ipv4Literals
    THEN [ok |-> TRUE, val |-> Ipv4Literals[s]]
    ELSE [ok |-> FALSE, val |-> <<0, 0, 0, 0>>]

\* hostname_to_ip: "<hostname>:0" resolved, the first IPv4 address; an address literal
\* resolves to itself
hostname_to_ip(hostname) ==
    IF hostname \in DOMAIN Ipv4Literals THEN [ok |-> TRUE, val |-> Ipv4Literals[hostname]]
    ELSE IF hostname \in DOMAIN Resolver THEN [ok |-> TRUE, val |-> Resolver[hostname]]
    ELSE [ok |-> FALSE, val |-> <<0, 0, 0, 0>>]

\* the flags of Config::load by the arm of the match that takes them
FlagArm ==
    ("-i" :> "iface") @@ ("--iface" :> "iface")
    @@ ("-c" :> "ip") @@ ("--ip" :> "ip")
    @@ ("--host" :> "host")
    @@ ("-p" :> "port") @@ ("--port" :> "port")
    @@ ("-n" :> "update_time") @@ ("--update-time" :> "update_time")
    @@ ("--cert-pem" :> "cert_pem") @@ ("--cert-key" :> "cert_key")
    @@ ("--cert-ca" :> "cert_ca")
    @@ ("-r" :> "rule_timeout") @@ ("--rule-timeout" :> "rule_timeout")
    @@ ("--cleanup-interval" :> "cleanup_interval")
    @@ ("--channel-size" :> "channel_size")
    @@ ("-g" :> "grpc_port") @@ ("--grpc-port" :> "grpc_port")
    @@ ("-h" :> "help") @@ ("--help" :> "help")

arm_of(word) == IF word \in DOMAIN FlagArm THEN FlagArm[word] ELSE "unknown"

\* the arms whose value is parsed, with the parser and the field of each
parse_value(arm, word) ==
    CASE arm = "ip" -> Ipv4Addr_from_str(word)
      [] arm = "host" -> hostname_to_ip(word)
      [] arm \in {"port", "grpc_port"} -> parse_u16(word)
      [] OTHER -> parse_u64(word)

\* the configuration with the field of the arm set
set_field(c, arm, val) ==
    CASE arm = "iface" -> [c EXCEPT !.iface_name = val]
      [] arm \in {"ip", "host"} -> [c EXCEPT !.controller_ip = val]
      [] arm = "port" -> [c EXCEPT !.controller_port = val]
      [] arm = "update_time" -> [c EXCEPT !.lazy_update_timeout = val]
      [] arm = "cert_pem" -> [c EXCEPT !.cert_file = val]
      [] arm = "cert_key" -> [c EXCEPT !.key_file = val]
      [] arm = "cert_ca" -> [c EXCEPT !.ca_file = val]
      [] arm = "rule_timeout" -> [c EXCEPT !.rule_timeout_ns = val]
      [] arm = "cleanup_interval" -> [c EXCEPT !.cleanup_interval_sec = val]
      [] arm = "channel_size" -> [c EXCEPT !.broadcast_channel_size = val]
      [] arm = "grpc_port" -> [c EXCEPT !.grpc_server_port = val]

StringArms == {"iface", "cert_pem", "cert_key", "cert_ca"}

\* the arms that step over their value (i += 1 inside the arm); the three certificate
\* arms do not
SkippingArms ==
    {"iface", "ip", "host", "port", "update_time", "rule_timeout", "cleanup_interval",
     "channel_size", "grpc_port"}

\* the loop of Config::load from index i (argv[1] is the program name): the outcome, the
\* configuration, and the arm taken at every index the loop visited
RECURSIVE load_from(_, _, _, _)
load_from(argv, i, c, arms) ==
    IF i > Len(argv) THEN [status |-> "Ok", config |-> c, arms |-> arms]
    ELSE LET arm == arm_of(argv[i])
             taken == arms @@ (i :> arm)
         IN IF arm = "unknown" THEN load_from(argv, i + 1, c, taken)
            ELSE IF arm = "help" THEN [status |-> "Exit", config |-> c, arms |-> taken]
            ELSE IF i + 1 > Len(argv) THEN load_from(argv, i + 1, c, taken)
            ELSE IF arm \in StringArms
                 THEN load_from(argv, IF arm \in SkippingArms THEN i + 2 ELSE i + 1,
                                set_field(c, arm, argv[i + 1]), taken)
                 ELSE LET v == parse_value(arm, argv[i + 1])
                      IN IF v.ok
                         THEN load_from(argv, i + 2, set_field(c, arm, v.val), taken)
                         ELSE [status |-> "Err", config |-> c, arms |-> taken]

\* Config::load
Config_load(argv) == load_from(argv, 2, Config_default, <<>>)

\* the configuration the agent runs with: the controller at 10.0.0.1:443, the timeouts,
\* the interval and the channel size of the bounds
AgentConfig ==
    [Config_default EXCEPT !.controller_ip = <<10, 0, 0, 1>>,
                           !.controller_port = ControllerPort,
                           !.lazy_update_timeout = LazyUpdateTimeout,
                           !.rule_timeout_ns = RuleTimeoutNs,
                           !.cleanup_interval_sec = CleanupInterval,
                           !.broadcast_channel_size = BroadcastChannelSize]

StartIdle == [pc |-> "start", arms |-> <<>>]

StartDone == [pc |-> "loaded", arms |-> <<>>]

\* main: let config = Config::load(&args)?
ConfigLoad ==
    /\ startup.pc = "start"
    /\ LET r == Config_load(args)
       IN /\ startup' = [pc |-> CASE r.status = "Ok" -> "loaded"
                                  [] r.status = "Err" -> "error"
                                  [] OTHER -> "exit",
                         arms |-> r.arms]
          /\ config' = IF r.status = "Ok" THEN r.config ELSE config
    /\ UNCHANGED <<build, args, now, sm, refreshed, sub, ipc, mon, subscribers, rp, next_tick,
                   locks, hist, sb>>

(***************************************************************************)
(* Peer Authenticator: AuthInterceptor::call.                              *)
(***************************************************************************)
\* the interceptor without its IPv6 arm: the address bits alone are compared
AuthInterceptor_call_NoV6Arm(remote) ==
    IF remote.family = "none" THEN "PermissionDenied"
    ELSE IF remote.ip = u32_from(config.controller_ip) THEN "Ok"
    ELSE "PermissionDenied"

\* the interceptor without the comparison with controller_ip
AuthInterceptor_call_AnyV4(remote) ==
    IF remote.family = "none" THEN "PermissionDenied"
    ELSE IF remote.family = "V6" THEN "PermissionDenied"
    ELSE "Ok"

AuthInterceptor_call(remote) ==
    IF remote.family = "none" THEN "PermissionDenied"
    ELSE IF remote.family = "V6" THEN "PermissionDenied"
    ELSE IF remote.ip = u32_from(config.controller_ip) THEN "Ok"
    ELSE "PermissionDenied"

(***************************************************************************)
(* Rule Manager.                                                           *)
(***************************************************************************)
\* add_rule refreshing last_seen_ns only when the entry exists
add_rule_KeepsCreated(m, dest_ip, src_ip, dest_port, t) ==
    LET key == session_key(dest_ip, src_ip, dest_port)
    IN map_update(m, key,
           session_val(IF key \in DOMAIN m THEN m[key].created_at_ns ELSE t, t))

\* Bpf::add_rule with the clock reading t
add_rule(m, dest_ip, src_ip, dest_port, t) ==
    map_update(m, session_key(dest_ip, src_ip, dest_port), session_val(t, t))

\* main.rs add_rule with its two wall-clock readings
main_add_rule(m, dest_ip, src_ip, dest_port, w1, w2) ==
    map_update(m, session_key(dest_ip, src_ip, dest_port), session_val(w1, w2))

\* remove_rule building its key with the two addresses exchanged
remove_rule_SwappedIps(m, dest_ip, src_ip, dest_port) ==
    map_delete(m, session_key(src_ip, dest_ip, dest_port))

\* Bpf::remove_rule
remove_rule(m, dest_ip, src_ip, dest_port) ==
    map_delete(m, session_key(dest_ip, src_ip, dest_port))

\* the outcomes of the modify_rules callback: the arguments go to the rule manager as received
modify_rules(m, activate, dest_ip, src_ip, dest_port) ==
    IF ~activate THEN {remove_rule(m, dest_ip, src_ip, dest_port)}
    ELSE IF add_path = "bpf"
         THEN {add_rule(m, dest_ip, src_ip, dest_port, t) : t \in get_ktime_ns}
         ELSE {main_add_rule(m, dest_ip, src_ip, dest_port, w[1], w[2]) :
                  w \in SystemTime_now \X SystemTime_now}

\* u64 as i32: the low 32 bits, read as a signed number
as_i32(x) ==
    LET y == x % (2 * I32Bound)
    IN IF y >= I32Bound THEN y - (2 * I32Bound) ELSE y

\* the time_left_sec of one well-formed entry, with the clock reading t
time_left_sec(t, val, timeout_ns) ==
    LET elapsed == saturating_sub(t, val.last_seen_ns)
        time_left_ns == saturating_sub(timeout_ns, elapsed)
    IN as_i32(time_left_ns \div NsPerSec)

\* list_rules reporting the two addresses of the key exchanged
list_rules_SwappedIps(m, t, timeout_ns, skipped) ==
    {[src_ip |-> k.dest_ip, dst_ip |-> k.src_ip, dst_port |-> k.dest_port,
      time_left |-> time_left_sec(t, m[k], timeout_ns)] : k \in DOMAIN m \ skipped}

\* a list that gives up on the first buffer that fails a check and returns nothing
list_rules_EmptyOnSkip(m, t, timeout_ns, skipped) ==
    IF skipped = {} THEN
        {[src_ip |-> k.src_ip, dst_ip |-> k.dest_ip, dst_port |-> k.dest_port,
          time_left |-> time_left_sec(t, m[k], timeout_ns)] : k \in DOMAIN m}
    ELSE {}

\* Bpf::list_rules with the clock reading t: (src_ip, dest_ip, dest_port, time_left_sec) for
\* every key whose buffers pass the size and alignment checks
list_rules(m, t, timeout_ns, skipped) ==
    {[src_ip |-> k.src_ip, dst_ip |-> k.dest_ip, dst_port |-> k.dest_port,
      time_left |-> time_left_sec(t, m[k], timeout_ns)] : k \in DOMAIN m \ skipped}

(***************************************************************************)
(* submit_session.                                                         *)
(***************************************************************************)
\* the validation off by one: >= instead of >
port_in_range_OffByOne(dst_port) == ~(dst_port >= U16Max)

port_in_range(dst_port) == ~(dst_port > U16Max)

as_u16(x) == x % 65536

SubIdle ==
    [pc |-> "idle", remote |-> [family |-> "none", ip |-> 0],
     event |-> [activate |-> FALSE, src_ip |-> 0, dst_ip |-> 0, dst_port |-> 0],
     status |-> "none", success |-> FALSE, calls |-> <<>>]

\* a request arrives: the interceptor, then the port validation
SubmitReceive(remote, event) ==
    /\ sub.pc = "idle"
    /\ sub' =
         IF AuthInterceptor_call(remote) # "Ok"
         THEN [SubIdle EXCEPT !.pc = "done", !.remote = remote, !.event = event,
                              !.status = AuthInterceptor_call(remote)]
         ELSE IF ~port_in_range(event.dst_port)
         THEN [SubIdle EXCEPT !.pc = "done", !.remote = remote, !.event = event,
                              !.status = "InvalidArgument"]
         ELSE [SubIdle EXCEPT !.pc = "accepted", !.remote = remote, !.event = event]
    /\ UNCHANGED <<build, cfg, hist, sb, now, sm, refreshed, ipc, rp, next_tick, mon, subscribers, locks>>

\* modify_rules.lock().await, the callback, the reply
SubmitCall ==
    /\ sub.pc = "accepted"
    /\ modify_rules_lock = "free"
    /\ LET dst_port == as_u16(sub.event.dst_port)
           key == session_key(sub.event.dst_ip, sub.event.src_ip, dst_port)
       IN \E r \in modify_rules(sm, sub.event.activate, sub.event.dst_ip,
                                sub.event.src_ip, dst_port) :
            /\ sm' = r.map
            /\ refreshed' = Stamp(refreshed, r.map,
                                  IF r.ok /\ sub.event.activate THEN {key} ELSE {})
            /\ sub' = [sub EXCEPT !.pc = "done", !.status = "Ok", !.success = r.ok,
                                  !.calls = Append(@, [activate |-> sub.event.activate,
                                                       dest_ip |-> sub.event.dst_ip,
                                                       src_ip |-> sub.event.src_ip,
                                                       dest_port |-> dst_port])]
    /\ UNCHANGED <<build, cfg, hist, sb, now, ipc, rp, next_tick, mon, subscribers, locks>>

\* the response has been sent
SubmitReturn ==
    /\ sub.pc = "done"
    /\ sub' = SubIdle
    /\ UNCHANGED <<build, cfg, hist, sb, now, sm, refreshed, ipc, rp, next_tick, mon, subscribers, locks>>

(***************************************************************************)
(* ip_change and replace_src_ip.                                           *)
(***************************************************************************)
IpChangeEvents == [old_ip : SrcIps, new_ip : SrcIps]

RECURSIVE SeqsUpTo(_)
SeqsUpTo(n) ==
    IF n = 0 THEN {<<>>}
    ELSE SeqsUpTo(n - 1)
         \cup {Append(s, e) : s \in {q \in SeqsUpTo(n - 1) : Len(q) = n - 1},
                              e \in IpChangeEvents}

IpChangeLists == SeqsUpTo(MaxChanges)

IpcIdle ==
    [pc |-> "idle", remote |-> [family |-> "none", ip |-> 0], changes |-> <<>>,
     idx |-> 0, found |-> {}, has_errors |-> FALSE, results |-> <<>>,
     status |-> "none", success |-> FALSE]

\* replace_src_ip, step 1: iterate, collect the entries whose src_ip is old_ip
replace_collect(m, old_ip) ==
    {[key |-> k, created_at_ns |-> m[k].created_at_ns] :
        k \in {x \in DOMAIN m : x.src_ip = to_be32(old_ip)}}

\* replace_src_ip, step 2: insert the new-key entries; the first failing insert ends the call
RECURSIVE replace_insert(_, _, _, _)
replace_insert(m, found, new_ip, t) ==
    IF found = {} THEN {[ok |-> TRUE, map |-> m]}
    ELSE UNION {
        LET r == map_update(m,
                     session_key(f.key.dest_ip, to_be32(new_ip), f.key.dest_port),
                     session_val(f.created_at_ns, t))
        IN IF r.ok THEN replace_insert(r.map, found \ {f}, new_ip, t)
           ELSE {[ok |-> FALSE, map |-> r.map]} : f \in found}

\* replace_src_ip, step 3: delete the old-key entries; the first failing delete ends the call
RECURSIVE replace_delete(_, _)
replace_delete(m, found) ==
    IF found = {} THEN {[ok |-> TRUE, map |-> m]}
    ELSE UNION {
        LET r == map_delete(m, f.key)
        IN IF r.ok THEN replace_delete(r.map, found \ {f})
           ELSE {[ok |-> FALSE, map |-> r.map]} : f \in found}

\* a request arrives: the interceptor
IpChangeReceive(remote, changes) ==
    /\ ipc.pc = "idle"
    /\ ipc' =
         IF AuthInterceptor_call(remote) # "Ok"
         THEN [IpcIdle EXCEPT !.pc = "done", !.remote = remote,
                              !.status = AuthInterceptor_call(remote)]
         ELSE [IpcIdle EXCEPT !.pc = "loop", !.remote = remote, !.changes = changes,
                              !.idx = 1]
    /\ UNCHANGED <<build, cfg, hist, sb, now, sm, refreshed, sub, rp, next_tick, mon, subscribers, locks>>

\* the next list element: update_ip.lock().await, then the callback iterates the map
IpChangeCollect ==
    /\ ipc.pc = "loop"
    /\ ipc.idx <= Len(ipc.changes)
    /\ update_ip_lock = "free"
    /\ update_ip_lock' = "ip_change"
    /\ ipc' = [ipc EXCEPT !.pc = "insert",
                          !.found = replace_collect(sm, ipc.changes[ipc.idx].old_ip)]
    /\ UNCHANGED <<build, cfg, hist, sb, now, sm, refreshed, sub, rp, next_tick, modify_rules_lock, mon, subscribers>>

\* the insert step keeping the update_ip mutex when the callback returns an error
IpChangeInsert_KeepsLockOnError ==
    /\ ipc.pc = "insert"
    /\ \E t \in get_ktime_ns :
         \E r \in replace_insert(sm, ipc.found, ipc.changes[ipc.idx].new_ip, t) :
            /\ sm' = r.map
            /\ refreshed' = Stamp(refreshed, r.map,
                   {k \in DOMAIN r.map : k \notin DOMAIN sm \/ r.map[k] # sm[k]})
            /\ ipc' = IF r.ok
                      THEN [ipc EXCEPT !.pc = "delete"]
                      ELSE [ipc EXCEPT !.pc = "loop", !.idx = @ + 1, !.found = {},
                                       !.has_errors = TRUE,
                                       !.results = Append(@,
                                           [old_ip |-> ipc.changes[ipc.idx].old_ip,
                                            new_ip |-> ipc.changes[ipc.idx].new_ip,
                                            ok |-> FALSE, count |-> 0])]
    /\ UNCHANGED <<build, cfg, hist, sb, now, sub, rp, next_tick, locks, mon, subscribers>>

IpChangeInsert ==
    /\ ipc.pc = "insert"
    /\ \E t \in get_ktime_ns :
         \E r \in replace_insert(sm, ipc.found, ipc.changes[ipc.idx].new_ip, t) :
            /\ sm' = r.map
            /\ refreshed' = Stamp(refreshed, r.map,
                   {k \in DOMAIN r.map : k \notin DOMAIN sm \/ r.map[k] # sm[k]})
            /\ IF r.ok
               THEN /\ ipc' = [ipc EXCEPT !.pc = "delete"]
                    /\ UNCHANGED update_ip_lock
               ELSE /\ ipc' = [ipc EXCEPT !.pc = "loop", !.idx = @ + 1, !.found = {},
                                          !.has_errors = TRUE,
                                          !.results = Append(@,
                                              [old_ip |-> ipc.changes[ipc.idx].old_ip,
                                               new_ip |-> ipc.changes[ipc.idx].new_ip,
                                               ok |-> FALSE, count |-> 0])]
                    /\ update_ip_lock' = "free"
    /\ UNCHANGED <<build, cfg, hist, sb, now, sub, rp, next_tick, modify_rules_lock, mon, subscribers>>

IpChangeDelete ==
    /\ ipc.pc = "delete"
    /\ \E r \in replace_delete(sm, ipc.found) :
         /\ sm' = r.map
         /\ refreshed' = Stamp(refreshed, r.map, {})
         /\ ipc' = [ipc EXCEPT !.pc = "loop", !.idx = @ + 1, !.found = {},
                               !.has_errors = @ \/ ~r.ok,
                               !.results = Append(@,
                                   [old_ip |-> ipc.changes[ipc.idx].old_ip,
                                    new_ip |-> ipc.changes[ipc.idx].new_ip,
                                    ok |-> r.ok,
                                    count |-> IF r.ok THEN Cardinality(ipc.found) ELSE 0])]
    /\ update_ip_lock' = "free"
    /\ UNCHANGED <<build, cfg, hist, sb, now, sub, rp, next_tick, modify_rules_lock, mon, subscribers>>

\* the reply without the has_errors flag
IpChangeReply_AlwaysSuccess ==
    /\ ipc.pc = "loop"
    /\ ipc.idx > Len(ipc.changes)
    /\ ipc' = [ipc EXCEPT !.pc = "done", !.status = "Ok", !.success = TRUE]
    /\ UNCHANGED <<build, cfg, hist, sb, now, sm, refreshed, sub, rp, next_tick, mon, subscribers, locks>>

\* the list is exhausted: Ack { success: !has_errors }
IpChangeReply ==
    /\ ipc.pc = "loop"
    /\ ipc.idx > Len(ipc.changes)
    /\ ipc' = [ipc EXCEPT !.pc = "done", !.status = "Ok", !.success = ~ipc.has_errors]
    /\ UNCHANGED <<build, cfg, hist, sb, now, sm, refreshed, sub, rp, next_tick, mon, subscribers, locks>>

IpChangeReturn ==
    /\ ipc.pc = "done"
    /\ ipc' = IpcIdle
    /\ UNCHANGED <<build, cfg, hist, sb, now, sm, refreshed, sub, rp, next_tick, mon, subscribers, locks>>

(***************************************************************************)
(* monitor_sessions.                                                       *)
(***************************************************************************)
MonIdle == [pc |-> "idle", remote |-> [family |-> "none", ip |-> 0], status |-> "none"]

\* broadcast::channel: sent counts the values sent, buf holds the newest of them, closed is
\* set when every Sender is gone
ChanInit == [sent |-> 0, buf |-> <<>>, closed |-> FALSE]

\* position of the oldest value the channel c still holds
oldest(c) == c.sent - Len(c.buf) + 1

\* no stream: the slot of a forwarding task that was never spawned
TaskNone ==
    [pc |-> "none", next |-> 0, msg |-> 0, q |-> <<>>, stream |-> "none", last |-> 0,
     lagged |-> FALSE, why |-> "none"]

\* the receivers of the channel: the forwarding tasks that run
rx_cnt == Cardinality({i \in DOMAIN tasks : tasks[i].pc \in {"recv", "send"}})

\* a send that stores nothing while a receiver still holds the value it read last
broadcast_send_HeldBack(c, v) ==
    IF rx_cnt = 0 \/ (\E i \in DOMAIN tasks : tasks[i].pc = "send") THEN c
    ELSE [c EXCEPT !.sent = @ + 1,
                   !.buf = Append(IF Len(@) >= config.broadcast_channel_size THEN Tail(@) ELSE @,
                                  [seq |-> c.sent + 1, sessions |-> v])]

\* Sender::send: an error when there is no receiver, else the value is stored, the oldest
\* value making room when the channel is full; it never waits
broadcast_send(c, v) ==
    IF rx_cnt = 0 THEN c
    ELSE [c EXCEPT !.sent = @ + 1,
                   !.buf = Append(IF Len(@) >= config.broadcast_channel_size THEN Tail(@) ELSE @,
                                  [seq |-> c.sent + 1, sessions |-> v])]

\* a request arrives: the interceptor, then subscribe(), the mpsc channel and the spawn
MonitorReceive(remote) ==
    /\ mon.pc = "idle"
    /\ IF AuthInterceptor_call(remote) # "Ok"
       THEN /\ mon' = [pc |-> "done", remote |-> remote,
                       status |-> AuthInterceptor_call(remote)]
            /\ UNCHANGED <<subscribers, tasks>>
       ELSE /\ subscribers < MaxSubscribers
            /\ mon' = [pc |-> "done", remote |-> remote, status |-> "Ok"]
            /\ subscribers' = subscribers + 1
            /\ tasks' = [tasks EXCEPT ![subscribers + 1] =
                            [TaskNone EXCEPT !.pc = "recv", !.next = chan.sent + 1,
                                             !.stream = "open"]]
    /\ UNCHANGED <<build, cfg, hist, chan, now, sm, refreshed, sub, ipc, rp, next_tick, locks>>

MonitorReturn ==
    /\ mon.pc = "done"
    /\ mon' = MonIdle
    /\ UNCHANGED <<build, cfg, hist, sb, now, sm, refreshed, sub, ipc, subscribers, rp, next_tick, locks>>

\* the forwarding task without the Lagged arm: a lag signal ends the loop
TaskRecv_LagEnds(i) ==
    /\ tasks[i].pc = "recv"
    /\ \/ /\ tasks[i].next < oldest(chan)
          /\ tasks' = [tasks EXCEPT ![i].pc = "ended", ![i].why = "lagged"]
       \/ /\ tasks[i].next >= oldest(chan) /\ tasks[i].next <= chan.sent
          /\ tasks' = [tasks EXCEPT ![i].pc = "send",
                                    ![i].msg = chan.buf[tasks[i].next - oldest(chan) + 1],
                                    ![i].next = @ + 1]
       \/ /\ tasks[i].next > chan.sent /\ chan.closed
          /\ tasks' = [tasks EXCEPT ![i].pc = "ended", ![i].why = "closed"]
    /\ UNCHANGED <<build, cfg, hist, chan, now, sm, refreshed, sub, ipc, mon, subscribers, rp,
                   next_tick, locks>>

\* broadcast_rx.recv().await returns: Lagged when values were overwritten before the task
\* read them (the task goes on with the oldest value held), Ok with the next value, Closed
\* when the channel is closed and empty; otherwise the task waits
TaskRecv(i) ==
    /\ tasks[i].pc = "recv"
    /\ \/ /\ tasks[i].next < oldest(chan)
          /\ tasks' = [tasks EXCEPT ![i].next = oldest(chan), ![i].lagged = TRUE]
       \/ /\ tasks[i].next >= oldest(chan) /\ tasks[i].next <= chan.sent
          /\ tasks' = [tasks EXCEPT ![i].pc = "send",
                                    ![i].msg = chan.buf[tasks[i].next - oldest(chan) + 1],
                                    ![i].next = @ + 1]
       \/ /\ tasks[i].next > chan.sent /\ chan.closed
          /\ tasks' = [tasks EXCEPT ![i].pc = "ended", ![i].why = "closed"]
    /\ UNCHANGED <<build, cfg, hist, chan, now, sm, refreshed, sub, ipc, mon, subscribers, rp,
                   next_tick, locks>>

\* the forwarding task going on after a failed tx.send
TaskSend_IgnoresError(i) ==
    /\ tasks[i].pc = "send"
    /\ \/ /\ tasks[i].stream = "dropped"
          /\ tasks' = [tasks EXCEPT ![i].pc = "recv", ![i].msg = 0]
       \/ /\ tasks[i].stream = "open"
          /\ Len(tasks[i].q) < ForwardQueueSize
          /\ tasks' = [tasks EXCEPT ![i].pc = "recv", ![i].q = Append(@, tasks[i].msg),
                                    ![i].last = tasks[i].msg.seq, ![i].msg = 0]
    /\ UNCHANGED <<build, cfg, hist, chan, now, sm, refreshed, sub, ipc, mon, subscribers, rp,
                   next_tick, locks>>

\* tx.send(msg).await returns: an error when the stream was dropped (the loop ends), Ok
\* when the queue had room; otherwise the task waits
TaskSend(i) ==
    /\ tasks[i].pc = "send"
    /\ \/ /\ tasks[i].stream = "dropped"
          /\ tasks' = [tasks EXCEPT ![i].pc = "ended", ![i].why = "send_error", ![i].msg = 0]
       \/ /\ tasks[i].stream = "open"
          /\ Len(tasks[i].q) < ForwardQueueSize
          /\ tasks' = [tasks EXCEPT ![i].pc = "recv", ![i].q = Append(@, tasks[i].msg),
                                    ![i].last = tasks[i].msg.seq, ![i].msg = 0]
    /\ UNCHANGED <<build, cfg, hist, chan, now, sm, refreshed, sub, ipc, mon, subscribers, rp,
                   next_tick, locks>>

\* the client reads the next SessionList of its stream
ClientRead(i) ==
    /\ tasks[i].stream = "open"
    /\ tasks[i].q # <<>>
    /\ tasks' = [tasks EXCEPT ![i].q = Tail(@)]
    /\ UNCHANGED <<build, cfg, hist, chan, now, sm, refreshed, sub, ipc, mon, subscribers, rp,
                   next_tick, locks>>

\* the client disconnects: the ReceiverStream and what it holds are dropped
ClientDrop(i) ==
    /\ tasks[i].stream = "open"
    /\ tasks' = [tasks EXCEPT ![i].stream = "dropped", ![i].q = <<>>]
    /\ UNCHANGED <<build, cfg, hist, chan, now, sm, refreshed, sub, ipc, mon, subscribers, rp,
                   next_tick, locks>>

\* no handler and no reaper pass is running
AllQuiet == sub.pc = "idle" /\ ipc.pc = "idle" /\ mon.pc = "idle" /\ rp.pc = "idle"

\* the server and the reaper end: every Sender of the channel is dropped
ChannelClose ==
    /\ ~chan.closed
    /\ AllQuiet
    /\ chan' = [chan EXCEPT !.closed = TRUE]
    /\ UNCHANGED <<build, cfg, hist, tasks, now, sm, refreshed, sub, ipc, mon, subscribers, rp,
                   next_tick, locks>>

(***************************************************************************)
(* Reaper: cleanup_ebpf_rules on every tick.                               *)
(***************************************************************************)
RpIdle == [pc |-> "idle", now |-> 0, skipped |-> {}, stale |-> {}, result |-> "none",
           count |-> 0, deleted |-> {}]

\* the filter with the operands of the subtraction exchanged
is_stale_Swapped(t, val, timeout_ns) == saturating_sub(val.last_seen_ns, t) > timeout_ns

\* the filter of cleanup_ebpf_rules on one well-formed value
is_stale(t, val, timeout_ns) == saturating_sub(t, val.last_seen_ns) > timeout_ns

\* the tick: read the clock, iterate the keys, look each value up, keep the stale keys;
\* a value whose buffer fails the size or alignment check is skipped
ReaperCollect ==
    /\ rp.pc = "idle"
    /\ ~chan.closed
    /\ now = next_tick
    /\ modify_rules_lock = "free" /\ update_ip_lock = "free"
    /\ modify_rules_lock' = "reaper" /\ update_ip_lock' = "reaper"
    /\ \E t \in get_ktime_ns :
       \E skipped \in (IF env_faults THEN SUBSET DOMAIN sm ELSE {{}}) :
         LET stale == {k \in DOMAIN sm \ skipped : is_stale(t, sm[k], config.rule_timeout_ns)}
         IN rp' = [pc |-> IF stale = {} THEN "cleaned" ELSE "collected",
                   now |-> t, skipped |-> skipped, stale |-> stale,
                   result |-> IF stale = {} THEN "Ok" ELSE "none", count |-> 0,
                   deleted |-> {}]
    /\ UNCHANGED <<build, cfg, hist, sb, now, sm, refreshed, sub, ipc, next_tick, mon, subscribers>>

\* a pass that empties the map once it has found a stale key
ReaperDeleteBatch_ClearsMap ==
    /\ rp.pc = "collected"
    /\ sm' = [x \in {} |-> sm[x]]
    /\ refreshed' = [x \in {} |-> refreshed[x]]
    /\ rp' = [rp EXCEPT !.pc = "cleaned", !.result = "Ok",
                        !.count = Cardinality(rp.stale), !.deleted = DOMAIN sm]
    /\ UNCHANGED <<build, cfg, hist, sb, now, sub, ipc, next_tick, mon, subscribers, locks>>

\* delete_batch of the stale keys: all of them, or an error after some of them
ReaperDeleteBatch ==
    /\ rp.pc = "collected"
    /\ \E done \in (IF env_faults THEN SUBSET rp.stale ELSE {rp.stale}) :
         /\ sm' = [x \in DOMAIN sm \ done |-> sm[x]]
         /\ refreshed' = [x \in DOMAIN sm \ done |-> refreshed[x]]
         /\ rp' = [rp EXCEPT !.pc = "cleaned",
                             !.result = IF done = rp.stale THEN "Ok" ELSE "Err",
                             !.count = IF done = rp.stale THEN Cardinality(rp.stale)
                                       ELSE 0,
                             !.deleted = done]
    /\ UNCHANGED <<build, cfg, hist, sb, now, sub, ipc, next_tick, mon, subscribers, locks>>

\* a pass that lists and publishes first and reaps afterwards
ReaperFinish_ListsFirst ==
    /\ rp.pc \in {"collected", "cleaned"}
    /\ \E t \in get_ktime_ns :
         chan' = broadcast_send(chan, list_rules(sm, t, config.rule_timeout_ns, {}))
    /\ sm' = [x \in DOMAIN sm \ rp.stale |-> sm[x]]
    /\ refreshed' = [x \in DOMAIN sm \ rp.stale |-> refreshed[x]]
    /\ rp' = RpIdle
    /\ next_tick' = next_tick + config.cleanup_interval_sec
    /\ modify_rules_lock' = "free" /\ update_ip_lock' = "free"
    /\ UNCHANGED <<build, cfg, hist, tasks, now, sub, ipc, mon, subscribers>>

\* a reaper that goes on to the list and the next tick only after a cleanup that returned Ok
ReaperFinish_StopsOnError ==
    /\ rp.pc = "cleaned"
    /\ rp.result = "Ok"
    /\ \E t \in get_ktime_ns :
       \E skipped \in (IF env_faults THEN SUBSET DOMAIN sm ELSE {{}}) :
         chan' = broadcast_send(chan, list_rules(sm, t, config.rule_timeout_ns, skipped))
    /\ rp' = RpIdle
    /\ next_tick' = next_tick + config.cleanup_interval_sec
    /\ modify_rules_lock' = "free" /\ update_ip_lock' = "free"
    /\ UNCHANGED <<build, cfg, hist, tasks, now, sm, refreshed, sub, ipc, mon, subscribers>>

\* the pass ends: list_rules, the snapshot is sent to the channel; the next tick is one
\* interval later
ReaperFinish ==
    /\ rp.pc = "cleaned"
    /\ \E t \in get_ktime_ns :
       \E skipped \in (IF env_faults THEN SUBSET DOMAIN sm ELSE {{}}) :
         chan' = broadcast_send(chan, list_rules(sm, t, config.rule_timeout_ns, skipped))
    /\ rp' = RpIdle
    /\ next_tick' = next_tick + config.cleanup_interval_sec
    /\ modify_rules_lock' = "free" /\ update_ip_lock' = "free"
    /\ UNCHANGED <<build, cfg, hist, tasks, now, sm, refreshed, sub, ipc, mon, subscribers>>

(***************************************************************************)
(* Data plane (XDP classifier) and the clock.                              *)
(***************************************************************************)
CONTROLLER_IP == to_be32(u32_from(config.controller_ip))

CONTROLLER_PORT ==
    IF add_path = "bpf" THEN to_be16(config.controller_port) ELSE config.controller_port

PacketPorts == {22, 65535, 443}

Packets == [src_ip : SrcIps \cup {ControllerIp}, dst_ip : DstIps, dst_port : PacketPorts]

\* the key the classifier builds from the headers, read as host integers
packet_key(pkt) ==
    session_key(to_be32(pkt.dst_ip), to_be32(pkt.src_ip), to_be16(pkt.dst_port))

is_controller(pkt) ==
    to_be16(pkt.dst_port) = CONTROLLER_PORT /\ to_be32(pkt.src_ip) = CONTROLLER_IP

\* a classifier that looks the source address up without the destination and the port
verdict_AnySessionOfSource(m, pkt) ==
    IF is_controller(pkt) THEN "PASS"
    ELSE IF \E k \in DOMAIN m : k.src_ip = packet_key(pkt).src_ip THEN "PASS" ELSE "DROP"

verdict(m, pkt) ==
    IF is_controller(pkt) THEN "PASS"
    ELSE IF packet_key(pkt) \in DOMAIN m THEN "PASS" ELSE "DROP"

\* a classifier that refreshes only the entries stamped in the future
lazy_due_Never(val) == now < val.last_seen_ns

\* now - last_seen_ns >= LAZY_UPDATE_TIMEOUT in u64 arithmetic (a negative difference wraps)
lazy_due(val) ==
    IF now >= val.last_seen_ns THEN now - val.last_seen_ns >= config.lazy_update_timeout
    ELSE TRUE

DataPlanePacket(pkt) ==
    /\ ~is_controller(pkt)
    /\ packet_key(pkt) \in DOMAIN sm
    /\ lazy_due(sm[packet_key(pkt)])
    /\ sm' = [sm EXCEPT ![packet_key(pkt)].last_seen_ns = now]
    /\ refreshed' = [refreshed EXCEPT ![packet_key(pkt)] = now]
    /\ UNCHANGED <<build, cfg, hist, sb, now, sub, ipc, rp, next_tick, mon, subscribers, locks>>

\* a classifier whose refresh writes both stamps of the entry
XdpClassify_StampsBoth(pkt) ==
    /\ hist = <<>>
    /\ LET key == packet_key(pkt)
           refresh == ~is_controller(pkt) /\ key \in DOMAIN sm /\ lazy_due(sm[key])
           after == IF refresh THEN [sm EXCEPT ![key] = session_val(now, now)] ELSE sm
       IN /\ sm' = after
          /\ refreshed' = IF refresh THEN [refreshed EXCEPT ![key] = now] ELSE refreshed
          /\ hist' = Append(hist, [op |-> "packet", pkt |-> pkt, verdict |-> verdict(sm, pkt),
                                   at |-> now, before |-> sm, after |-> after])
    /\ UNCHANGED <<build, cfg, sb, now, sub, ipc, rp, next_tick, mon, subscribers, locks>>

\* the classifier on one packet, with its verdict recorded: the controller rule, the
\* lookup, the lazy refresh of a hit
XdpClassify(pkt) ==
    /\ hist = <<>>
    /\ LET key == packet_key(pkt)
           refresh == ~is_controller(pkt) /\ key \in DOMAIN sm /\ lazy_due(sm[key])
           after == IF refresh THEN [sm EXCEPT ![key].last_seen_ns = now] ELSE sm
       IN /\ sm' = after
          /\ refreshed' = IF refresh THEN [refreshed EXCEPT ![key] = now] ELSE refreshed
          /\ hist' = Append(hist, [op |-> "packet", pkt |-> pkt, verdict |-> verdict(sm, pkt),
                                   at |-> now, before |-> sm, after |-> after])
    /\ UNCHANGED <<build, cfg, sb, now, sub, ipc, rp, next_tick, mon, subscribers, locks>>

\* the larger of two numbers
Max(a, b) == IF a >= b THEN a ELSE b

\* the packet of the session 10.0.0.5 -> 10.0.0.9:22 and its key
SessionPkt == [src_ip |-> 167772165, dst_ip |-> 167772169, dst_port |-> 22]

SessionKey == packet_key(SessionPkt)

\* a packet of the session arrives and is classified; the arrival is recorded with the
\* longest gap between two arrivals so far
SessionPacket ==
    /\ Len(hist) = 1 /\ hist[1].op = "arrival"
    /\ LET refresh == /\ ~is_controller(SessionPkt)
                      /\ SessionKey \in DOMAIN sm
                      /\ lazy_due(sm[SessionKey])
       IN /\ sm' = IF refresh THEN [sm EXCEPT ![SessionKey].last_seen_ns = now] ELSE sm
          /\ refreshed' = IF refresh THEN [refreshed EXCEPT ![SessionKey] = now]
                          ELSE refreshed
    /\ hist' = <<[op |-> "arrival", at |-> now,
                  max_gap |-> Max(hist[1].max_gap, now - hist[1].at)]>>
    /\ UNCHANGED <<build, cfg, sb, now, sub, ipc, rp, next_tick, mon, subscribers, locks>>

Tick ==
    /\ now < MaxTime
    /\ rp.pc = "idle"
    /\ now < next_tick
    /\ now' = now + 1
    /\ UNCHANGED <<build, cfg, hist, sb, sm, refreshed, sub, ipc, rp, next_tick, mon, subscribers, locks>>

(***************************************************************************)
(* The rule manager called directly: add_rule, remove_rule and             *)
(* replace_src_ip applied to a map, each call recorded with the map before *)
(* and after it.                                                           *)
(***************************************************************************)
\* source addresses as the keys of the map hold them
RuleSrc == {to_be32(x) : x \in SrcIps}

RulePorts == {22, 443}

RuleKeys ==
    {session_key(to_be32(d), s, p) : d \in DstIps, s \in RuleSrc, p \in RulePorts}

\* the maps a sequence of calls starts from: up to max_entries sessions added at time 1
RuleMaps ==
    {[k \in K |-> session_val(1, 1)] :
        K \in {S \in SUBSET RuleKeys : Cardinality(S) <= MaxEntries}}

\* replace_src_ip as one call: collect, insert, delete; the outcomes with the count returned
replace_src_ip(m, old_ip, new_ip, t) ==
    LET found == replace_collect(m, old_ip)
    IN UNION {
        IF i.ok
        THEN {[ok |-> d.ok, count |-> IF d.ok THEN Cardinality(found) ELSE 0,
               map |-> d.map] : d \in replace_delete(i.map, found)}
        ELSE {[ok |-> FALSE, count |-> 0, map |-> i.map]} :
            i \in replace_insert(m, found, new_ip, t)}

CallRecord(op, key, old_ip, new_ip, r, count) ==
    [op |-> op, key |-> key, old_ip |-> old_ip, new_ip |-> new_ip, ok |-> r.ok,
     count |-> count, at |-> now, before |-> sm, after |-> r.map,
     timeout_ns |-> 0, sessions |-> {}, skipped |-> {}]

ListRules(timeout_ns) ==
    /\ hist = <<>>
    /\ \E t \in get_ktime_ns :
       \E skipped \in (IF env_faults THEN SUBSET DOMAIN sm ELSE {{}}) :
         hist' = Append(hist,
             [CallRecord("list", session_key(0, 0, 0), 0, 0, [ok |-> TRUE, map |-> sm], 0)
                 EXCEPT !.at = t, !.timeout_ns = timeout_ns, !.skipped = skipped,
                        !.sessions = list_rules(sm, t, timeout_ns, skipped)])
    /\ UNCHANGED <<build, cfg, sb, now, sm, refreshed, sub, ipc, mon, subscribers, rp, next_tick, locks>>

RuleAdd(dest_ip, src_ip, dest_port) ==
    /\ Len(hist) < 2
    /\ \E t \in get_ktime_ns :
         LET key == session_key(dest_ip, src_ip, dest_port)
             r == add_rule(sm, dest_ip, src_ip, dest_port, t)
         IN /\ sm' = r.map
            /\ refreshed' = Stamp(refreshed, r.map, IF r.ok THEN {key} ELSE {})
            /\ hist' = Append(hist, CallRecord("add", key, 0, 0, r, 0))
    /\ UNCHANGED <<build, cfg, sb, now, sub, ipc, mon, subscribers, rp, next_tick, locks>>

RuleRemove(dest_ip, src_ip, dest_port) ==
    /\ Len(hist) < 2
    /\ LET key == session_key(dest_ip, src_ip, dest_port)
           r == remove_rule(sm, dest_ip, src_ip, dest_port)
       IN /\ sm' = r.map
          /\ refreshed' = Stamp(refreshed, r.map, {})
          /\ hist' = Append(hist, CallRecord("remove", key, 0, 0, r, 0))
    /\ UNCHANGED <<build, cfg, sb, now, sub, ipc, mon, subscribers, rp, next_tick, locks>>

RuleReplace(old_ip, new_ip) ==
    /\ Len(hist) < 2
    /\ \E t \in get_ktime_ns :
         \E r \in replace_src_ip(sm, old_ip, new_ip, t) :
            /\ sm' = r.map
            /\ refreshed' = Stamp(refreshed, r.map,
                   {k \in DOMAIN r.map : k \notin DOMAIN sm \/ r.map[k] # sm[k]})
            /\ hist' = Append(hist,
                   CallRecord("replace", session_key(0, 0, 0), old_ip, new_ip, r, r.count))
    /\ UNCHANGED <<build, cfg, sb, now, sub, ipc, mon, subscribers, rp, next_tick, locks>>

(***************************************************************************)
(* Specifications.                                                         *)
(***************************************************************************)
Init ==
    /\ host_le \in BOOLEAN
    /\ add_path \in {"bpf", "main"}
    /\ env_faults \in BOOLEAN
    /\ now = 1
    /\ sm = [x \in {} |-> 0]
    /\ refreshed = [x \in {} |-> 0]
    /\ sub = SubIdle
    /\ ipc = IpcIdle
    /\ mon = MonIdle
    /\ subscribers = 0
    /\ rp = RpIdle
    /\ next_tick = 1
    /\ modify_rules_lock = "free"
    /\ update_ip_lock = "free"
    /\ hist = <<>>
    /\ chan = ChanInit
    /\ tasks = [i \in 1..MaxSubscribers |-> TaskNone]
    /\ args = <<"aegis">>
    /\ startup = StartDone
    /\ config = AgentConfig

Next ==
    \/ \E remote \in Remotes, event \in LoginEvents : SubmitReceive(remote, event)
    \/ SubmitCall
    \/ SubmitReturn
    \/ \E remote \in Remotes, changes \in IpChangeLists : IpChangeReceive(remote, changes)
    \/ IpChangeCollect
    \/ IpChangeInsert
    \/ IpChangeDelete
    \/ IpChangeReply
    \/ IpChangeReturn
    \/ \E remote \in Remotes : MonitorReceive(remote)
    \/ MonitorReturn
    \/ ReaperCollect
    \/ ReaperDeleteBatch
    \/ ReaperFinish
    \/ \E pkt \in Packets : DataPlanePacket(pkt)
    \/ Tick
    \/ \E i \in 1..MaxSubscribers : TaskRecv(i)
    \/ \E i \in 1..MaxSubscribers : TaskSend(i)
    \/ \E i \in 1..MaxSubscribers : ClientRead(i)
    \/ \E i \in 1..MaxSubscribers : ClientDrop(i)
    \/ ChannelClose

\* the whole agent, every peer and every request
Spec == Init /\ [][Next]_vars

AllIdle == sub.pc = "idle" /\ ipc.pc = "idle" /\ mon.pc = "idle"

Controller == [family |-> "V4", ip |-> ControllerIp]

SshEvents == {e \in LoginEvents : e.dst_port = 22}

SshPackets == {p \in Packets : p.dst_port = 22}

\* the RPC surface: requests of every peer, one at a time, the clock standing still
NextAuth ==
    \/ AllIdle /\ \E remote \in Remotes, event \in LoginEvents : SubmitReceive(remote, event)
    \/ SubmitCall
    \/ SubmitReturn
    \/ AllIdle /\ \E remote \in Remotes, changes \in IpChangeLists :
                     IpChangeReceive(remote, changes)
    \/ IpChangeCollect
    \/ IpChangeInsert
    \/ IpChangeDelete
    \/ IpChangeReply
    \/ IpChangeReturn
    \/ AllIdle /\ \E remote \in Remotes : MonitorReceive(remote)
    \/ MonitorReturn
    \/ \E pkt \in Packets : DataPlanePacket(pkt)

SpecAuth == Init /\ [][NextAuth]_vars

\* the controller's submit and ip_change requests in flight together
NextConc ==
    \/ \E event \in SshEvents : SubmitReceive(Controller, event)
    \/ SubmitCall
    \/ SubmitReturn
    \/ \E changes \in IpChangeLists : IpChangeReceive(Controller, changes)
    \/ IpChangeCollect
    \/ IpChangeInsert
    \/ IpChangeDelete
    \/ IpChangeReply
    \/ IpChangeReturn
    \/ \E pkt \in SshPackets : DataPlanePacket(pkt)

SpecConc == Init /\ [][NextConc]_vars

\* the controller's requests one at a time, the reaper, the data plane and the clock
NextTime ==
    \/ AllIdle /\ \E event \in SshEvents : SubmitReceive(Controller, event)
    \/ SubmitCall
    \/ SubmitReturn
    \/ AllIdle /\ \E changes \in IpChangeLists : IpChangeReceive(Controller, changes)
    \/ IpChangeCollect
    \/ IpChangeInsert
    \/ IpChangeDelete
    \/ IpChangeReply
    \/ IpChangeReturn
    \/ ReaperCollect
    \/ ReaperDeleteBatch
    \/ ReaperFinish
    \/ \E pkt \in SshPackets : DataPlanePacket(pkt)
    \/ Tick

SpecTime == Init /\ [][NextTime]_vars

\* the rule manager alone: any map within max_entries, then two calls, the clock advancing
InitRule ==
    /\ host_le \in BOOLEAN
    /\ add_path = "bpf"
    /\ env_faults \in BOOLEAN
    /\ now = 1
    /\ sm \in RuleMaps
    /\ refreshed = [k \in DOMAIN sm |-> 1]
    /\ sub = SubIdle
    /\ ipc = IpcIdle
    /\ mon = MonIdle
    /\ subscribers = 0
    /\ rp = RpIdle
    /\ next_tick = MaxTime
    /\ modify_rules_lock = "free"
    /\ update_ip_lock = "free"
    /\ hist = <<>>
    /\ chan = ChanInit
    /\ tasks = [i \in 1..MaxSubscribers |-> TaskNone]
    /\ args = <<"aegis">>
    /\ startup = StartDone
    /\ config = AgentConfig

NextRule ==
    \/ \E k \in RuleKeys : RuleAdd(k.dest_ip, k.src_ip, k.dest_port)
    \/ \E k \in RuleKeys : RuleRemove(k.dest_ip, k.src_ip, k.dest_port)
    \/ \E old_ip \in SrcIps, new_ip \in SrcIps : RuleReplace(old_ip, new_ip)
    \/ Tick

SpecRule == InitRule /\ [][NextRule]_vars

\* the rule manager's four mutations: the recorded calls and the cleanup pass of the tick
NextCalls ==
    \/ \E k \in RuleKeys : RuleAdd(k.dest_ip, k.src_ip, k.dest_port)
    \/ \E k \in RuleKeys : RuleRemove(k.dest_ip, k.src_ip, k.dest_port)
    \/ \E old_ip \in SrcIps, new_ip \in SrcIps : RuleReplace(old_ip, new_ip)
    \/ ReaperCollect
    \/ ReaperDeleteBatch
    \/ ReaperFinish
    \/ Tick

SpecCalls == InitRule /\ [][NextCalls]_vars

\* the monitor streams: the controller subscribes, the reaper publishes on every tick, the
\* forwarding tasks and the clients run at their own pace, the server may end
InitMon == Init /\ host_le /\ add_path = "bpf" /\ ~env_faults

NextMon ==
    \/ ~chan.closed /\ AllIdle /\ MonitorReceive(Controller)
    \/ MonitorReturn
    \/ ReaperCollect
    \/ ReaperFinish
    \/ Tick
    \/ \E i \in 1..MaxSubscribers : TaskRecv(i)
    \/ \E i \in 1..MaxSubscribers : TaskSend(i)
    \/ \E i \in 1..MaxSubscribers : ClientRead(i)
    \/ \E i \in 1..MaxSubscribers : ClientDrop(i)
    \/ ChannelClose

SpecMon == InitMon /\ [][NextMon]_vars

\* submit and the snapshots: the controller's requests one at a time, one monitor stream
\* subscribed, the reaper publishing on every tick, the clock
NextSnap ==
    \/ AllIdle /\ \E event \in SshEvents : SubmitReceive(Controller, event)
    \/ SubmitCall
    \/ SubmitReturn
    \/ subscribers = 0 /\ AllIdle /\ MonitorReceive(Controller)
    \/ MonitorReturn
    \/ ReaperCollect
    \/ ReaperDeleteBatch
    \/ ReaperFinish
    \/ Tick

InitSnap == Init /\ ~env_faults

SpecSnap == InitSnap /\ [][NextSnap]_vars

\* the runtime polls every forwarding task that can go on
SpecMonFair ==
    /\ SpecMon
    /\ \A i \in 1..MaxSubscribers : WF_vars(TaskRecv(i)) /\ WF_vars(TaskSend(i))

\* lists of two changes, as the handler receives them
IpChangePairs == {<<a, b>> : a \in IpChangeEvents, b \in IpChangeEvents}

\* ip_change alone: the controller's lists, one request at a time, on any map within
\* max_entries
NextIpc ==
    \/ \E changes \in IpChangeLists \cup IpChangePairs : IpChangeReceive(Controller, changes)
    \/ IpChangeCollect
    \/ IpChangeInsert
    \/ IpChangeDelete
    \/ IpChangeReply
    \/ IpChangeReturn

SpecIpc == InitRule /\ [][NextIpc]_vars

\* list_rules alone: one entry, every u64 value of the clock, last_seen_ns and the timeout
InitList ==
    /\ host_le \in BOOLEAN
    /\ add_path \in {"bpf", "main"}
    /\ env_faults \in BOOLEAN
    /\ now \in 0..WordMax
    /\ \E k \in RuleKeys, t \in 0..WordMax : sm = [x \in {k} |-> session_val(t, t)]
    /\ refreshed = [k \in DOMAIN sm |-> now]
    /\ sub = SubIdle
    /\ ipc = IpcIdle
    /\ mon = MonIdle
    /\ subscribers = 0
    /\ rp = RpIdle
    /\ next_tick = MaxTime
    /\ modify_rules_lock = "free"
    /\ update_ip_lock = "free"
    /\ hist = <<>>
    /\ chan = ChanInit
    /\ tasks = [i \in 1..MaxSubscribers |-> TaskNone]
    /\ args = <<"aegis">>
    /\ startup = StartDone
    /\ config = AgentConfig

NextList == \E timeout_ns \in 0..WordMax : ListRules(timeout_ns)

SpecList == InitList /\ [][NextList]_vars

\* the two handlers and one reaper pass contending for the mutexes: the controller's
\* submits (every port) and ip_change lists in flight together, on any map within
\* max_entries, the clock standing still
InitLock ==
    /\ host_le \in BOOLEAN
    /\ add_path = "bpf"
    /\ env_faults = FALSE
    /\ now = 1
    /\ sm \in RuleMaps
    /\ refreshed = [k \in DOMAIN sm |-> 1]
    /\ sub = SubIdle
    /\ ipc = IpcIdle
    /\ mon = MonIdle
    /\ subscribers = 0
    /\ rp = RpIdle
    /\ next_tick = 1
    /\ modify_rules_lock = "free"
    /\ update_ip_lock = "free"
    /\ hist = <<>>
    /\ chan = ChanInit
    /\ tasks = [i \in 1..MaxSubscribers |-> TaskNone]
    /\ args = <<"aegis">>
    /\ startup = StartDone
    /\ config = AgentConfig

\* submits of one session: activation and deactivation, a valid port and one out of range
LockEvents == {e \in LoginEvents : e.src_ip = 167772165 /\ e.dst_port \in {22, 70000}}

\* ip_change lists of up to two elements that name two different addresses
LockChanges ==
    {<<>>}
    \cup {<<a>> : a \in {e \in IpChangeEvents : e.old_ip # e.new_ip}}
    \cup {<<a, b>> : a \in {e \in IpChangeEvents : e.old_ip # e.new_ip},
                     b \in {e \in IpChangeEvents : e.old_ip # e.new_ip}}

NextLock ==
    \/ \E event \in LockEvents : SubmitReceive(Controller, event)
    \/ SubmitCall
    \/ SubmitReturn
    \/ \E changes \in LockChanges : IpChangeReceive(Controller, changes)
    \/ IpChangeCollect
    \/ IpChangeInsert
    \/ IpChangeDelete
    \/ IpChangeReply
    \/ IpChangeReturn
    \/ ReaperCollect
    \/ ReaperFinish

SpecLock == InitLock /\ [][NextLock]_vars

\* the runtime polls every task that can go on, and the mutexes are fair
SpecLockFair ==
    /\ SpecLock
    /\ WF_vars(SubmitCall) /\ WF_vars(SubmitReturn)
    /\ WF_vars(IpChangeCollect) /\ WF_vars(IpChangeInsert) /\ WF_vars(IpChangeDelete)
    /\ WF_vars(IpChangeReply) /\ WF_vars(IpChangeReturn)
    /\ WF_vars(ReaperFinish)

\* the writers of the stamps: the controller's activations and address changes one at a
\* time through Bpf::add_rule and replace_src_ip, one packet classified by the data plane,
\* the clock; every clock read succeeds and no pass of the reaper is due
InitStamp ==
    /\ host_le \in BOOLEAN
    /\ add_path = "bpf"
    /\ env_faults = FALSE
    /\ now = 1
    /\ sm = [x \in {} |-> 0]
    /\ refreshed = [x \in {} |-> 0]
    /\ sub = SubIdle
    /\ ipc = IpcIdle
    /\ mon = MonIdle
    /\ subscribers = 0
    /\ rp = RpIdle
    /\ next_tick = MaxTime
    /\ modify_rules_lock = "free"
    /\ update_ip_lock = "free"
    /\ hist = <<>>
    /\ chan = ChanInit
    /\ tasks = [i \in 1..MaxSubscribers |-> TaskNone]
    /\ args = <<"aegis">>
    /\ startup = StartDone
    /\ config = AgentConfig

Activations == {e \in SshEvents : e.activate}

NextStamp ==
    \/ AllIdle /\ \E event \in Activations : SubmitReceive(Controller, event)
    \/ SubmitCall
    \/ SubmitReturn
    \/ AllIdle /\ \E changes \in IpChangeLists : IpChangeReceive(Controller, changes)
    \/ IpChangeCollect
    \/ IpChangeInsert
    \/ IpChangeDelete
    \/ IpChangeReply
    \/ IpChangeReturn
    \/ \E pkt \in SshPackets : XdpClassify(pkt)
    \/ Tick

SpecStamp == InitStamp /\ [][NextStamp]_vars

\* cleanup_ebpf_rules and list_rules over entries whose buffers may fail the size or
\* alignment check: one list call at any time, the pass of the tick at MaxTime, the clock
NextSkip ==
    \/ ListRules(config.rule_timeout_ns)
    \/ ReaperCollect
    \/ ReaperDeleteBatch
    \/ ReaperFinish
    \/ Tick

SpecSkip == InitRule /\ [][NextSkip]_vars

\* the controller's activations, one at a time, on any map within max_entries: the valid
\* ports of the wire, the clock advancing
ValidActivations == {e \in LoginEvents : e.activate /\ port_in_range(e.dst_port)}

NextFull ==
    \/ AllIdle /\ \E event \in ValidActivations : SubmitReceive(Controller, event)
    \/ SubmitCall
    \/ SubmitReturn
    \/ Tick

SpecFull == InitRule /\ [][NextFull]_vars

\* the reaper on every tick over sessions added at time 1, with and without a monitor
\* stream subscribed, with and without failing clock reads, lookups and batch deletes
InitReap ==
    /\ host_le = TRUE
    /\ add_path = "bpf"
    /\ env_faults \in BOOLEAN
    /\ now = 1
    /\ sm \in RuleMaps
    /\ refreshed = [k \in DOMAIN sm |-> 1]
    /\ sub = SubIdle
    /\ ipc = IpcIdle
    /\ mon = MonIdle
    /\ subscribers = 0
    /\ rp = RpIdle
    /\ next_tick = 1
    /\ modify_rules_lock = "free"
    /\ update_ip_lock = "free"
    /\ hist = <<>>
    /\ chan = ChanInit
    /\ tasks = [i \in 1..MaxSubscribers |-> TaskNone]
    /\ args = <<"aegis">>
    /\ startup = StartDone
    /\ config = AgentConfig

NextReap ==
    \/ subscribers = 0 /\ AllIdle /\ MonitorReceive(Controller)
    \/ MonitorReturn
    \/ ReaperCollect
    \/ ReaperDeleteBatch
    \/ ReaperFinish
    \/ Tick

SpecReap == InitReap /\ [][NextReap]_vars

\* the interval fires and the runtime polls the reaper task
SpecReapFair ==
    /\ SpecReap
    /\ WF_vars(ReaperCollect) /\ WF_vars(ReaperDeleteBatch) /\ WF_vars(ReaperFinish)

\* one session under traffic: every rule_timeout and lazy_update_timeout up to MaxTimeout,
\* the entry as add_rule wrote it at time 1, its packets, the reaper on every tick, the clock
InitAlive ==
    /\ host_le \in BOOLEAN
    /\ add_path \in {"bpf", "main"}
    /\ env_faults \in BOOLEAN
    /\ now = 1
    /\ sm = [k \in {SessionKey} |->
                IF add_path = "bpf" THEN session_val(1, 1)
                ELSE session_val(1 + EpochOffset, 1 + EpochOffset)]
    /\ refreshed = [k \in DOMAIN sm |-> 1]
    /\ sub = SubIdle
    /\ ipc = IpcIdle
    /\ mon = MonIdle
    /\ subscribers = 0
    /\ rp = RpIdle
    /\ next_tick = 1
    /\ modify_rules_lock = "free"
    /\ update_ip_lock = "free"
    /\ hist = <<[op |-> "arrival", at |-> 1, max_gap |-> 0]>>
    /\ chan = ChanInit
    /\ tasks = [i \in 1..MaxSubscribers |-> TaskNone]
    /\ args = <<"aegis">>
    /\ startup = StartDone
    /\ \E T \in 0..MaxTimeout, L \in 0..MaxTimeout :
          config = [AgentConfig EXCEPT !.rule_timeout_ns = T, !.lazy_update_timeout = L]

NextAlive ==
    \/ SessionPacket
    \/ ReaperCollect
    \/ ReaperDeleteBatch
    \/ ReaperFinish
    \/ Tick

SpecAlive == InitAlive /\ [][NextAlive]_vars

\* the keys of the packets, and the same keys with the two addresses exchanged
XdpKeys ==
    {packet_key(pkt) : pkt \in Packets}
    \cup {session_key(packet_key(pkt).src_ip, packet_key(pkt).dest_ip,
                       packet_key(pkt).dest_port) : pkt \in Packets}

\* the classifier alone: any map of up to max_entries of these keys, one packet at any
\* time of the clock
InitXdp ==
    /\ host_le \in BOOLEAN
    /\ add_path \in {"bpf", "main"}
    /\ env_faults = FALSE
    /\ now = 1
    /\ \E K \in {S \in SUBSET XdpKeys : Cardinality(S) <= MaxEntries} :
          sm = [k \in K |-> session_val(1, 1)]
    /\ refreshed = [k \in DOMAIN sm |-> 1]
    /\ sub = SubIdle
    /\ ipc = IpcIdle
    /\ mon = MonIdle
    /\ subscribers = 0
    /\ rp = RpIdle
    /\ next_tick = MaxTime
    /\ modify_rules_lock = "free"
    /\ update_ip_lock = "free"
    /\ hist = <<>>
    /\ chan = ChanInit
    /\ tasks = [i \in 1..MaxSubscribers |-> TaskNone]
    /\ args = <<"aegis">>
    /\ startup = StartDone
    /\ config = AgentConfig

NextXdp ==
    \/ \E pkt \in Packets : XdpClassify(pkt)
    \/ Tick

SpecXdp == InitXdp /\ [][NextXdp]_vars

\* the words of a command line: flags of every kind of arm, an unknown flag, and values
\* that parse as some types and not as others
ArgWords ==
    {"-i", "-c", "--host", "-p", "-n", "--cert-pem", "-r", "--cleanup-interval",
     "--channel-size", "-g", "-h", "--bogus", "eth1", "10.0.0.1", "localhost", "8080",
     "70000", "bad"}

ArgLists == UNION {[1..n -> ArgWords] : n \in 0..MaxArgs}

\* Config::load alone, on every command line of up to MaxArgs words
InitConfig ==
    /\ host_le = TRUE
    /\ add_path = "bpf"
    /\ env_faults = FALSE
    /\ now = 1
    /\ sm = [x \in {} |-> 0]
    /\ refreshed = [x \in {} |-> 0]
    /\ sub = SubIdle
    /\ ipc = IpcIdle
    /\ mon = MonIdle
    /\ subscribers = 0
    /\ rp = RpIdle
    /\ next_tick = 1
    /\ modify_rules_lock = "free"
    /\ update_ip_lock = "free"
    /\ hist = <<>>
    /\ chan = ChanInit
    /\ tasks = [i \in 1..MaxSubscribers |-> TaskNone]
    /\ \E rest \in ArgLists : args = <<"aegis">> \o rest
    /\ startup = StartIdle
    /\ config = Config_default

NextConfig == ConfigLoad

SpecConfig == InitConfig /\ [][NextConfig]_vars

(***************************************************************************)
(* Peer Authenticator and request validation.                              *)
(***************************************************************************)
\* the remote address is present, is IPv4 and is the configured controller_ip
Authorized(remote) == remote.family = "V4" /\ remote.ip = ControllerIp

PAOutcome(pc, remote, status) ==
    pc # "idle" =>
        /\ (status = "PermissionDenied") <=> ~Authorized(remote)
        /\ ~Authorized(remote) => pc = "done"

\* C1: the interceptor accepts a request if and only if its remote address is present,
\* is an IPv4 address and equals controller_ip; every other request (another IPv4
\* address, any IPv6 address, no address) ends with status permission-denied.
C1_InterceptorAcceptsOnlyController ==
    /\ PAOutcome(sub.pc, sub.remote, sub.status)
    /\ PAOutcome(ipc.pc, ipc.remote, ipc.status)
    /\ PAOutcome(mon.pc, mon.remote, mon.status)

\* an IPv6 peer carrying the controller's address bits was rejected, the map holding a session
C1_Witness ==
    /\ sub.pc = "done"
    /\ sub.remote = [family |-> "V6", ip |-> ControllerIp]
    /\ sub.status = "PermissionDenied"
    /\ DOMAIN sm # {}

SubmitDispatched(s) == s.pc = "accepted" \/ s.calls # <<>>

IpChangeDispatched(i) == i.pc \in {"loop", "insert", "delete"} \/ i.results # <<>>

\* the step changes nothing of the map but last_seen_ns values (the data plane's write)
OnlyLastSeenChanged ==
    /\ DOMAIN sm' = DOMAIN sm
    /\ \A k \in DOMAIN sm : sm'[k].created_at_ns = sm[k].created_at_ns

\* C2: a request rejected by the interceptor is never dispatched to submit, monitor or
\* ip_change and leaves the Session Map as it was; every change of the map made through
\* the RPC surface is made by a request that passed the interceptor.
C2_NoMutationWithoutPA ==
    [][/\ SubmitDispatched(sub') => Authorized(sub'.remote)
       /\ IpChangeDispatched(ipc') => Authorized(ipc'.remote)
       /\ subscribers' # subscribers => Authorized(mon'.remote)
       /\ (sub.pc = "idle" /\ sub'.pc # "idle" /\ ~Authorized(sub'.remote))
             => (sm' = sm /\ sub'.pc = "done")
       /\ (ipc.pc = "idle" /\ ipc'.pc # "idle" /\ ~Authorized(ipc'.remote))
             => (sm' = sm /\ ipc'.pc = "done")
       /\ (mon.pc = "idle" /\ mon'.pc # "idle" /\ ~Authorized(mon'.remote))
             => (sm' = sm /\ subscribers' = subscribers)
       /\ sm' # sm =>
             \/ OnlyLastSeenChanged
             \/ sub.pc = "accepted" /\ sub'.pc = "done" /\ Authorized(sub.remote)
             \/ ipc.pc \in {"insert", "delete"} /\ Authorized(ipc.remote)
      ]_vars

\* an ip_change of an unauthorized IPv4 peer was rejected while the map holds a session
C2_Witness ==
    /\ ipc.pc = "done"
    /\ ipc.remote = [family |-> "V4", ip |-> 167772259]
    /\ ipc.status = "PermissionDenied"
    /\ ipc.results = <<>>
    /\ DOMAIN sm # {}

\* the packet a peer s sends to d:p
PacketOf(event) ==
    [src_ip |-> event.src_ip, dst_ip |-> event.dst_ip, dst_port |-> event.dst_port]

\* C3: the key written for submit{activate=true, s, d, p} is (d, s, p) in network byte
\* order, the key of a packet sent from s to d:p, so that such a packet is passed.
C3_SubmitWritesDataPlaneKey ==
    [][(sub.pc = "accepted" /\ sub'.pc = "done" /\ sub.event.activate /\ sub'.success)
          => /\ packet_key(PacketOf(sub.event)) \in DOMAIN sm'
             /\ verdict(sm', PacketOf(sub.event)) = "PASS"
      ]_vars

\* C4: a submit with dst_port > 65535 ends with invalid-argument, no callback call and the
\* map unchanged; with dst_port in 0..65535 it passes the validation and the callback is
\* called exactly once with that port.
C4_PortValidation ==
    [][/\ (sub'.pc # "idle" /\ Authorized(sub'.remote)) =>
             IF sub'.event.dst_port > 65535
             THEN sub'.pc = "done" /\ sub'.status = "InvalidArgument" /\ sub'.calls = <<>>
             ELSE /\ sub'.status # "InvalidArgument"
                  /\ sub'.pc = "done" =>
                        /\ Len(sub'.calls) = 1
                        /\ sub'.calls[1].dest_port = sub'.event.dst_port
                        /\ sub'.calls[1].activate = sub'.event.activate
       /\ (sub.pc = "idle" /\ sub'.pc # "idle" /\ sub'.event.dst_port > 65535) => sm' = sm
      ]_vars

\* port 65535 passed the validation and reached the callback as 65535
C4_Witness ==
    /\ sub.pc = "done"
    /\ sub.event.dst_port = 65535
    /\ sub.status = "Ok"
    /\ Len(sub.calls) = 1
    /\ sub.calls[1].dest_port = 65535

\* the key of the entry the submit callback was called for
CalledKey(s) == session_key(s.calls[1].dest_ip, s.calls[1].src_ip, s.calls[1].dest_port)

\* C5: the rule manager calls run under one mutex: a submit's add_rule or remove_rule never
\* executes between the iterate, insert and delete steps of a replace_src_ip (here: never
\* writes an entry that a replace_src_ip in progress has collected).
C5_RuleManagerCallsSerialized ==
    [][(sub.pc = "accepted" /\ sub'.pc = "done" /\ sm' # sm)
          => ~(/\ ipc.pc \in {"insert", "delete"}
               /\ \E f \in ipc.found : f.key = CalledKey(sub'))
      ]_vars

C7_EntryLifetimeBounded ==
    ~env_faults =>
        \A k \in DOMAIN sm : now - refreshed[k] <= RuleTimeoutNs + CleanupInterval

\* C8: every add path writes created_at_ns = last_seen_ns = one reading of the monotonic
\* clock (0, the fallback of a failed read, counted as a reading).
C8_AddStampsOneMonotonicReading ==
    [][(sub.pc = "accepted" /\ sub'.pc = "done" /\ sub.event.activate /\ sub'.success)
          => LET val == sm'[CalledKey(sub')]
             IN /\ val.created_at_ns = val.last_seen_ns
                /\ val.last_seen_ns = now \/ (env_faults /\ val.last_seen_ns = 0)
      ]_vars

\* C9: every entry of the map has created_at_ns <= last_seen_ns in every reachable state.
C9_CreatedBeforeLastSeen ==
    \A k \in DOMAIN sm : sm[k].created_at_ns <= sm[k].last_seen_ns

\* C10: every entry of the map has last_seen_ns <= now, the monotonic reading at the
\* moment of observation.
C10_LastSeenNotInFuture ==
    \A k \in DOMAIN sm : sm[k].last_seen_ns <= now

(***************************************************************************)
(* Rule manager contracts.                                                 *)
(***************************************************************************)
\* C11: remove_rule of a key that is not in the map is not an error: a submit with
\* activate = false for a session that is not in the map returns Ack{success = true}
\* and leaves the map unchanged.
C11_RemoveAbsentIsNotAnError ==
    [][(/\ sub.pc = "accepted" /\ sub'.pc = "done"
        /\ ~sub.event.activate
        /\ CalledKey(sub') \notin DOMAIN sm)
          => (sub'.status = "Ok" /\ sub'.success /\ sm' = sm)
      ]_vars

\* all entries but the one of key k are the same in the maps a and b
SameButKey(a, b, k) ==
    /\ DOMAIN a \ {k} = DOMAIN b \ {k}
    /\ \A x \in DOMAIN a \ {k} : a[x] = b[x]

\* the clock readings a call made at time t can have stamped with
ReadingsAt(t) == {t} \cup (IF env_faults THEN {0} ELSE {})

\* the map has room for key k: k is in it, or it holds fewer than max_entries
HasRoom(m, k) == k \in DOMAIN m \/ Cardinality(DOMAIN m) < MaxEntries

SuccessiveAdds ==
    /\ Len(hist) = 2
    /\ hist[1].op = "add" /\ hist[2].op = "add"
    /\ hist[1].key = hist[2].key

AddedTwice ==
    LET k == hist[2].key
        m == hist[2].after
    IN /\ k \in DOMAIN m
       /\ m[k].created_at_ns \in ReadingsAt(hist[2].at)
       /\ m[k].last_seen_ns = m[k].created_at_ns
       /\ SameButKey(m, hist[1].before, k)

\* C12 as stated: for any map, two successive add_rule(d,s,p) calls leave exactly one entry
\* for (d,s,p), it carries the timestamps of the second call in both fields, and all other
\* entries are unchanged.
C12_AddRuleIdempotentAnyMap == SuccessiveAdds => AddedTwice

\* C12: for any map with room for the key (d,s,p), two successive add_rule(d,s,p) calls
\* leave exactly one entry for (d,s,p), it carries the timestamps of the second call in
\* both fields, and all other entries are unchanged.
C12_AddRuleIdempotent ==
    (SuccessiveAdds /\ HasRoom(hist[1].before, hist[1].key))
        => (hist[1].ok /\ hist[2].ok /\ AddedTwice)

\* the key was added at one time and added again later, next to another entry
C12_Witness ==
    /\ SuccessiveAdds
    /\ hist[1].ok /\ hist[2].ok
    /\ hist[1].at < hist[2].at
    /\ hist[1].after[hist[1].key].created_at_ns = hist[1].at
    /\ hist[2].after[hist[2].key].created_at_ns = hist[2].at
    /\ DOMAIN hist[1].before \ {hist[1].key} # {}

AddThenRemove ==
    /\ Len(hist) = 2
    /\ hist[1].op = "add" /\ hist[2].op = "remove"
    /\ hist[1].key = hist[2].key

RoundTrip ==
    /\ hist[1].ok /\ hist[2].ok
    /\ hist[2].key \notin DOMAIN hist[2].after
    /\ SameButKey(hist[2].after, hist[1].before, hist[2].key)

\* C13 as stated: for any map, add_rule(d,s,p) followed by remove_rule(d,s,p) leaves no
\* entry for (d,s,p), both calls succeed, and every other entry is unchanged.
C13_AddRemoveRoundTripAnyMap == AddThenRemove => RoundTrip

\* C13: for any map with room for the key (d,s,p), add_rule(d,s,p) followed by
\* remove_rule(d,s,p) leaves no entry for (d,s,p), both calls succeed, and every other
\* entry is unchanged.
C13_AddRemoveRoundTrip ==
    (AddThenRemove /\ HasRoom(hist[1].before, hist[1].key)) => RoundTrip

\* a new key was added next to another entry and removed again
C13_Witness ==
    /\ AddThenRemove
    /\ hist[1].key \notin DOMAIN hist[1].before
    /\ hist[1].key \in DOMAIN hist[1].after
    /\ hist[2].ok
    /\ DOMAIN hist[2].after # {}

WithSrc(m, ip) == {k \in DOMAIN m : k.src_ip = ip}

\* the call h rewrote n entries from source A to source B
Rewritten(h) ==
    LET A == to_be32(h.old_ip)
        B == to_be32(h.new_ip)
    IN /\ Cardinality(WithSrc(h.after, A)) = Cardinality(WithSrc(h.before, A)) - h.count
       /\ Cardinality(WithSrc(h.after, B)) = Cardinality(WithSrc(h.before, B)) + h.count
       /\ \A k \in WithSrc(h.before, A) :
            LET k2 == session_key(k.dest_ip, B, k.dest_port)
            IN /\ k2 \in DOMAIN h.after
               /\ h.after[k2].created_at_ns = h.before[k].created_at_ns
               /\ h.after[k2].last_seen_ns \in ReadingsAt(h.at)

\* no entry (dest_ip, B, dest_port) exists where the call h is to write one
NoTargetEntry(h) ==
    \A k \in WithSrc(h.before, to_be32(h.old_ip)) :
        session_key(k.dest_ip, to_be32(h.new_ip), k.dest_port) \notin DOMAIN h.before

ReplaceReturned(h) == h.op = "replace" /\ h.ok /\ h.old_ip # h.new_ip

C15_IpChangeCallsEveryElement ==
    /\ ipc.pc = "loop" => Len(ipc.results) = ipc.idx - 1
    /\ ipc.pc \in {"insert", "delete"} => Len(ipc.results) = ipc.idx - 1
    /\ \A i \in DOMAIN ipc.results :
          /\ i <= Len(ipc.changes)
          /\ ipc.results[i].old_ip = ipc.changes[i].old_ip
          /\ ipc.results[i].new_ip = ipc.changes[i].new_ip
    /\ (ipc.pc = "done" /\ Authorized(ipc.remote)) =>
          /\ ipc.status = "Ok"
          /\ Len(ipc.results) = Len(ipc.changes)
          /\ ipc.success <=> (\A i \in DOMAIN ipc.results : ipc.results[i].ok)

\* the first of two changes failed, the second was still processed, the Ack says failure
C15_Witness ==
    /\ ipc.pc = "done"
    /\ Len(ipc.changes) = 2
    /\ Len(ipc.results) = 2
    /\ ~ipc.results[1].ok
    /\ ipc.results[2].ok
    /\ ipc.status = "Ok" /\ ~ipc.success

(***************************************************************************)
(* Snapshots.                                                              *)
(***************************************************************************)
Max0(x) == IF x > 0 THEN x ELSE 0

\* the session records the call h reported for the entry of key k
ReportedFor(h, k) ==
    {r \in h.sessions :
        r.src_ip = k.src_ip /\ r.dst_ip = k.dest_ip /\ r.dst_port = k.dest_port}

\* C16: for all u64 values of rule_timeout, now and last_seen_ns, the time_left reported by
\* list_active is max(0, (rule_timeout - (now - last_seen_ns)) / 1e9) truncated to whole
\* seconds; it is never negative and is 0 for an entry idle for rule_timeout or longer, also
\* in the signed 32-bit field of the snapshot.
C16_TimeLeftClamped ==
    \A i \in DOMAIN hist :
        hist[i].op = "list" =>
            \A k \in DOMAIN hist[i].before : \A r \in ReportedFor(hist[i], k) :
                LET idle == hist[i].at - hist[i].before[k].last_seen_ns
                IN /\ r.time_left = Max0((hist[i].timeout_ns - idle) \div NsPerSec)
                   /\ r.time_left >= 0
                   /\ idle >= hist[i].timeout_ns => r.time_left = 0

(***************************************************************************)
(* Monitor streams.                                                        *)
(***************************************************************************)
Running(i) == tasks[i].pc \in {"recv", "send"}

\* the forwarding task i waits in tx.send on a full queue that its client does not read
Stuck(i) ==
    /\ tasks[i].pc = "send"
    /\ tasks[i].stream = "open"
    /\ Len(tasks[i].q) = ForwardQueueSize

\* C17: each monitor subscriber receives the snapshots in the order the reaper published
\* them: what is forwarded to a client is a subsequence of what was published (lag skips
\* snapshots, it never reorders or repeats them), and after a lag signal the forwarding
\* task goes on with the next snapshot the channel holds instead of ending the stream.
C17_SnapshotsForwardedInOrder ==
    [][\A i \in 1..MaxSubscribers :
          /\ (tasks[i].pc = "recv" /\ tasks'[i].pc = "send") =>
                /\ tasks'[i].msg.seq = tasks[i].next
                /\ \E j \in DOMAIN chan.buf : chan.buf[j] = tasks'[i].msg
          /\ Len(tasks'[i].q) > Len(tasks[i].q) =>
                /\ tasks'[i].q = Append(tasks[i].q, tasks[i].msg)
                /\ tasks[i].msg.seq > tasks[i].last
                /\ tasks[i].msg.seq <= chan.sent
                /\ \A j \in DOMAIN tasks[i].q : tasks[i].q[j].seq < tasks[i].msg.seq
          /\ (/\ tasks[i].pc = "recv" /\ tasks[i].next < oldest(chan)
              /\ <<tasks'[i].pc, tasks'[i].next>> # <<tasks[i].pc, tasks[i].next>>) =>
                /\ tasks'[i].pc = "recv"
                /\ tasks'[i].next = oldest(chan)
      ]_vars

\* a forwarding task was signalled a lag and forwarded a later snapshot after it
C17_Witness ==
    \E i \in 1..MaxSubscribers :
        /\ tasks[i].lagged
        /\ tasks[i].last >= 3
        /\ tasks[i].q # <<>>
        /\ tasks[i].q[Len(tasks[i].q)].seq = tasks[i].last

\* C18: a monitor subscriber that stops reading (its forwarding queue full) never blocks
\* the reaper or the other subscribers: the reaper's publish completes at once and stores
\* the snapshot, the reaper's next tick is not held back, and a subscriber that has read
\* everything finds every new snapshot at its cursor.
C18_SlowSubscriberBlocksNobody ==
    [][(\E i \in 1..MaxSubscribers : Stuck(i)) =>
          /\ rp.pc = "cleaned" => ENABLED ReaperFinish
          /\ (rp.pc = "idle" /\ now = next_tick /\ ~chan.closed) => ENABLED ReaperCollect
          /\ (rp.pc = "cleaned" /\ rp'.pc = "idle") =>
                /\ chan'.sent = chan.sent + 1
                /\ chan'.buf[Len(chan'.buf)].seq = chan'.sent
                /\ \A j \in 1..MaxSubscribers :
                      (Running(j) /\ tasks[j].next = chan.sent + 1) =>
                          /\ tasks'[j].next >= oldest(chan')
                          /\ chan'.buf[tasks'[j].next - oldest(chan') + 1].seq = tasks[j].next
          /\ \A j \in 1..MaxSubscribers :
                (tasks[j].pc = "recv" /\ tasks[j].next <= chan.sent) => ENABLED TaskRecv(j)
      ]_vars

\* one subscriber is stuck on its full queue while the other has been forwarded the
\* fourth snapshot
C18_Witness ==
    \E i \in 1..MaxSubscribers, j \in 1..MaxSubscribers :
        /\ i # j
        /\ Stuck(i)
        /\ tasks[i].last = ForwardQueueSize
        /\ chan.sent >= ForwardQueueSize + 2
        /\ tasks[j].last = chan.sent
        /\ ~tasks[j].lagged

\* the forwarding task i has a snapshot to go on with: the one it holds, or one in the channel
HasSnapshot(i) == tasks[i].pc = "send" \/ tasks[i].next <= chan.sent

\* C19: the forwarding task of a monitor stream terminates once the client has dropped the
\* stream and a snapshot is there for it (the reaper keeps publishing), and terminates when
\* the channel is closed and drained; it ends for no other reason (not on a lag signal).
C19_ForwardingTaskTerminates ==
    /\ [][\A i \in 1..MaxSubscribers :
             (Running(i) /\ tasks'[i].pc = "ended") =>
                 \/ tasks[i].pc = "send" /\ tasks[i].stream = "dropped"
                 \/ tasks[i].pc = "recv" /\ chan.closed /\ tasks[i].next > chan.sent
         ]_vars
    /\ \A i \in 1..MaxSubscribers :
          (tasks[i].stream = "dropped" /\ Running(i) /\ HasSnapshot(i))
              ~> (tasks[i].pc = "ended")
    /\ \A i \in 1..MaxSubscribers :
          (chan.closed /\ tasks[i].pc = "recv" /\ tasks[i].next > chan.sent)
              ~> (tasks[i].pc = "ended")

\* a task that had been signalled a lag ended on the send error of a dropped stream, and
\* another ended on the closed channel
C19_Witness ==
    \E i \in 1..MaxSubscribers, j \in 1..MaxSubscribers :
        /\ tasks[i].pc = "ended" /\ tasks[i].why = "send_error"
        /\ tasks[i].stream = "dropped" /\ tasks[i].lagged
        /\ tasks[j].pc = "ended" /\ tasks[j].why = "closed"

\* the records of the snapshot snap for the session of the event e, by its wire values
RecordsOf(snap, e) ==
    {r \in snap : r.src_ip = e.src_ip /\ r.dst_ip = e.dst_ip /\ r.dst_port = e.dst_port}

ControllerTraffic(pkt) ==
    to_be32(pkt.src_ip) = CONTROLLER_IP /\ to_be16(pkt.dst_port) = CONTROLLER_PORT

\* C21: an IPv4 TCP/UDP packet is passed if and only if it is controller traffic (source
\* IP = CONTROLLER_IP and destination port = CONTROLLER_PORT) or its key (dest_ip, src_ip,
\* dest_port) is in the Session Map at lookup time; every other packet is dropped,
\* whatever else the map contains
C21_PassIffControllerOrSession ==
    \A n \in 1..Len(hist) :
        hist[n].op = "packet" =>
            /\ hist[n].verdict \in {"PASS", "DROP"}
            /\ hist[n].verdict = "PASS" <=>
                  \/ ControllerTraffic(hist[n].pkt)
                  \/ session_key(to_be32(hist[n].pkt.dst_ip), to_be32(hist[n].pkt.src_ip),
                                 to_be16(hist[n].pkt.dst_port)) \in DOMAIN hist[n].before

\* a packet dropped although the map holds a session of its source and destination on
\* another port
C21_Witness ==
    /\ Len(hist) = 1
    /\ hist[1].op = "packet" /\ hist[1].verdict = "DROP"
    /\ \E k \in DOMAIN hist[1].before :
          /\ k.src_ip = to_be32(hist[1].pkt.src_ip)
          /\ k.dest_ip = to_be32(hist[1].pkt.dst_ip)
          /\ k.dest_port # to_be16(hist[1].pkt.dst_port)

\* C22: the read-only globals are initialised so that the controller's control channel
\* always passes: CONTROLLER_IP and CONTROLLER_PORT hold the configured controller_ip and
\* controller_port in network byte order before the program is loaded, for every
\* configured port, and are never written afterwards
C22_GlobalsInNetworkByteOrder ==
    /\ CONTROLLER_IP = to_be32(u32_from(config.controller_ip))
    /\ CONTROLLER_PORT = to_be16(config.controller_port)
    /\ \A pkt \in Packets :
          (pkt.src_ip = u32_from(config.controller_ip)
           /\ pkt.dst_port = config.controller_port) => verdict(sm, pkt) = "PASS"

(***************************************************************************)
(* The reaper pass: cleanup, listing, publish.                             *)
(***************************************************************************)
\* the records of the snapshot snap for the key k of the map
RecordsOfKey(snap, k) ==
    {r \in snap : r.src_ip = k.src_ip /\ r.dst_ip = k.dest_ip /\ r.dst_port = k.dest_port}

UnknownAt == {i \in DOMAIN startup.arms : startup.arms[i] = "unknown"}

\* the command line argv without the words at the indices of S
Without(argv, S) ==
    LET keep == (1..Len(argv)) \ S
    IN [n \in 1..Cardinality(keep) |->
           argv[CHOOSE i \in keep : Cardinality({j \in keep : j < i}) = n - 1]]

\* the fields each arm may set
FieldsOf(arm) ==
    CASE arm = "iface" -> {"iface_name"}
      [] arm \in {"ip", "host"} -> {"controller_ip"}
      [] arm = "port" -> {"controller_port"}
      [] arm = "update_time" -> {"lazy_update_timeout"}
      [] arm = "cert_pem" -> {"cert_file"}
      [] arm = "cert_key" -> {"key_file"}
      [] arm = "cert_ca" -> {"ca_file"}
      [] arm = "rule_timeout" -> {"rule_timeout_ns"}
      [] arm = "cleanup_interval" -> {"cleanup_interval_sec"}
      [] arm = "channel_size" -> {"broadcast_channel_size"}
      [] arm = "grpc_port" -> {"grpc_server_port"}
      [] OTHER -> {}

\* the outcome of Config::load as the start of main records it
OutcomeOf(r) ==
    CASE r.status = "Ok" -> "loaded" [] r.status = "Err" -> "error" [] OTHER -> "exit"

\* C24: Config::load ignores unknown arguments: the configuration obtained with the
\* unknown arguments present equals the one obtained with them removed; with no flags at
\* all it is the documented defaults (eth0, 172.21.0.5, 443, 1 s, 60 s, 30 s, 16, 50001,
\* certs/agent.pem, certs/agent.key, certs/ca.pem); each recognised flag changes only its
\* own field
C24_UnknownArgumentsIgnored ==
    startup.pc # "start" =>
        /\ LET r == Config_load(Without(args, UnknownAt))
           IN /\ OutcomeOf(r) = startup.pc
              /\ startup.pc = "loaded" => r.config = config
        /\ Len(args) = 1 =>
              /\ startup.pc = "loaded"
              /\ config = [iface_name |-> "eth0", controller_ip |-> <<172, 21, 0, 5>>,
                           controller_port |-> 443, lazy_update_timeout |-> NsPerSec,
                           rule_timeout_ns |-> 60 * NsPerSec, cleanup_interval_sec |-> 30,
                           broadcast_channel_size |-> 16, grpc_server_port |-> 50001,
                           cert_file |-> "certs/agent.pem", key_file |-> "certs/agent.key",
                           ca_file |-> "certs/ca.pem"]
        /\ \A f \in DOMAIN config :
              config[f] # Config_default[f] =>
                 \E i \in DOMAIN startup.arms : f \in FieldsOf(startup.arms[i])

\* C25: when both --host and -c/--ip are given, the controller IP of the resulting
\* configuration is the address resolved from --host, whatever the order of the two flags
C25_HostOverridesIp ==
    startup.pc = "loaded" =>
        \A i \in DOMAIN startup.arms, j \in DOMAIN startup.arms :
            (/\ startup.arms[i] = "host" /\ i + 1 <= Len(args)
             /\ startup.arms[j] = "ip" /\ j + 1 <= Len(args))
                => config.controller_ip = hostname_to_ip(args[i + 1]).val

\* the arms of the flags whose value is parsed as an address or a number
TypedArms ==
    {"ip", "port", "update_time", "rule_timeout", "cleanup_interval", "channel_size",
     "grpc_port"}

\* the word is a value of the type of the arm: a dotted quad, a 16-bit or a 64-bit decimal
IsOfType(arm, word) ==
    CASE arm = "ip" -> word \in DOMAIN Ipv4Literals
      [] arm \in {"port", "grpc_port"} -> word \in DOMAIN Decimals /\ Decimals[word] <= U16Max
      [] OTHER -> word \in DOMAIN Decimals

\* at index i of the command line stands a value-taking flag followed by a word that is
\* not of its type
BadValueAt(i) ==
    /\ i + 1 <= Len(args)
    /\ arm_of(args[i]) \in TypedArms
    /\ ~IsOfType(arm_of(args[i]), args[i + 1])

\* C26 as stated: Config::load returns an error, and no configuration, whenever a
\* value-taking flag (-c/--ip, -p/--port, -n/--update-time, -r/--rule-timeout,
\* --cleanup-interval, --channel-size, -g/--grpc-port) is followed by a value that does
\* not parse as its type, wherever the flag stands in the argument list
C26_BadValueIsAnErrorAnywhere ==
    startup.pc # "start" =>
        ((\E i \in 2..Len(args) : BadValueAt(i))
            => startup.pc = "error" /\ config = Config_default)

\* C26, amended: Config::load returns an error, and no configuration, whenever its loop
\* reaches a value-taking flag followed by a value that does not parse as its type; a
\* word that is the value of the flag before it, or that follows -h/--help, is not reached
C26_BadValueIsAnError ==
    startup.pc # "start" =>
        ((\E i \in DOMAIN startup.arms : BadValueAt(i))
            => startup.pc = "error" /\ config = Config_default)

\* the error of a bad port after another flag was taken with its value
C26_Witness ==
    /\ startup.pc = "error"
    /\ \E i \in DOMAIN startup.arms :
          /\ i > 2 /\ BadValueAt(i) /\ startup.arms[i] = "port" /\ args[i + 1] = "70000"
          /\ startup.arms[2] = "iface"

(***************************************************************************)
(* The service mutexes.                                                    *)
(***************************************************************************)
\* the rule manager call of the submit s returns Ok on the map m: an add finds the key or
\* room for it, a remove finds the key
RmReturnsOk(m, s) ==
    IF s.event.activate
    THEN CalledKey(s) \in DOMAIN m \/ Cardinality(DOMAIN m) < MaxEntries
    ELSE CalledKey(s) \in DOMAIN m

\* C27: no request sequence leaves a service mutex held or deadlocks: every submit and
\* ip_change (successful, failing in the rule manager call, or rejected for its port)
\* eventually returns and has released every lock it took, so a later request acquires
\* the lock; submit returns Ack.success = true exactly when its rule manager call returned
\* Ok and never turns a rule manager error into an RPC error status
C27_NoLockLeftHeld ==
    /\ [](/\ modify_rules_lock \in {"free", "reaper"}
          /\ update_ip_lock = "ip_change" <=> ipc.pc \in {"insert", "delete"})
    /\ [][(sub.pc = "accepted" /\ sub'.pc = "done")
             => /\ sub'.status = "Ok"
                /\ sub'.success <=> RmReturnsOk(sm, sub')]_vars
    /\ (sub.pc # "idle") ~> (sub.pc = "idle")
    /\ (ipc.pc # "idle") ~> (ipc.pc = "idle")

\* an ip_change whose first element failed in the rule manager has gone on to its second
\* element and holds the mutex again, while a submit has returned success = false
C27_Witness ==
    /\ ipc.pc = "insert" /\ ipc.idx = 2 /\ ipc.has_errors
    /\ update_ip_lock = "ip_change"
    /\ sub.pc = "done" /\ sub.status = "Ok" /\ ~sub.success

(***************************************************************************)
(* Sessions under traffic.                                                 *)
(***************************************************************************)
\* the packets of the session have arrived less than rule_timeout - LAZY_UPDATE_TIMEOUT
\* apart up to now
KeptUnderTraffic ==
    /\ Len(hist) = 1 /\ hist[1].op = "arrival"
    /\ hist[1].max_gap < config.rule_timeout_ns - config.lazy_update_timeout
    /\ now - hist[1].at < config.rule_timeout_ns - config.lazy_update_timeout

StaleAtRead(m, t, skipped) ==
    {k \in DOMAIN m \ skipped : saturating_sub(t, m[k].last_seen_ns) > config.rule_timeout_ns}

\* the step of a pass that reads the map
PassReads == rp.pc = "idle" /\ rp'.pc # "idle"

\* the step of a pass that calls delete_batch
PassDeletes == rp.pc = "collected" /\ rp'.pc = "cleaned"

\* the entry at k is live by the clock reading of the pass when the pass deletes it
DeletedLive(k) ==
    saturating_sub(rp.now, sm[k].last_seen_ns) <= config.rule_timeout_ns

CallFailed(i) == hist[i].op \in {"add", "remove", "replace"} /\ ~hist[i].ok

\* C30: every Rule Manager mutation is all-or-nothing per call: when add_rule,
\* remove_rule, cleanup_stale or replace_src_ip returns an error, the Session Map is
\* exactly as it was before the call: a batch delete that fails leaves none of the
\* collected stale keys deleted, a failing replace_src_ip leaves neither extra new-key
\* entries nor missing old-key entries
C30_MutationsAreAllOrNothing ==
    /\ [](\A i \in DOMAIN hist : CallFailed(i) => hist[i].after = hist[i].before)
    /\ [][PassDeletes /\ rp'.result = "Err" => sm' = sm]_vars

(***************************************************************************)
(* Claims about a failing clock read.                                      *)
(***************************************************************************)
\* the time since the entry at k was last written, by the true monotonic clock
RealAge(k) == now - refreshed[k]

\* the pass read the fallback 0 from get_ktime_ns: the true clock is never 0
PassReadsFallback == PassReads /\ rp'.now = 0

\* the stamp of the entry at k is the time of its last write
TrulyStamped(k) == sm[k].last_seen_ns = refreshed[k]

\* C31: when the clock read fails get_ktime_ns yields 0 and a cleanup_stale pass run
\* with that value deletes nothing and returns 0, for every map content and every
\* timeout; a clock failure in cleanup, list or add_rule never causes an entry to be
\* removed while its real age is at most rule_timeout
C31_ClockFailureNeverReaps ==
    [][/\ PassReadsFallback =>
            /\ rp'.stale = {} /\ rp'.pc = "cleaned"
            /\ rp'.result = "Ok" /\ rp'.count = 0
            /\ sm' = sm
       /\ PassDeletes =>
            \A k \in DOMAIN sm \ DOMAIN sm' :
                RealAge(k) > config.rule_timeout_ns \/ TrulyStamped(k)]_vars

(***************************************************************************)
(* Claims about the reaper's ticks.                                        *)
(***************************************************************************)
\* the step that ends a pass
PassEnds == rp.pc # "idle" /\ rp'.pc = "idle"

\* the snapshots list_rules can return on the map as it is
Snapshots ==
    {list_rules(sm, t, config.rule_timeout_ns, skipped) :
        t \in get_ktime_ns, skipped \in (IF env_faults THEN SUBSET DOMAIN sm ELSE {{}})}

Change == ipc.changes[ipc.idx]

\* the key that replaces the collected entry f
NewKey(f) == session_key(f.key.dest_ip, to_be32(Change.new_ip), f.key.dest_port)

\* the keys the call may touch: the collected old keys and the keys that replace them
TouchedKeys == {f.key : f \in ipc.found} \cup {NewKey(f) : f \in ipc.found}

\* the step of the call that inserts, the step that deletes
ReplaceInserts == ipc.pc = "insert" /\ ipc'.pc # "insert"

ReplaceDeletes == ipc.pc = "delete" /\ ipc'.pc # "delete"

\* C33: during replace_src_ip(A, B) every rewritten session is authorised at each
\* intermediate state: the new-key entry is inserted before the old-key entry is deleted,
\* there is no state in which neither (dest_ip, A, dest_port) nor (dest_ip, B, dest_port)
\* is present, and no entry of another session is inserted, deleted or modified
C33_RewrittenSessionStaysAuthorised ==
    [][/\ ReplaceInserts =>
            /\ \A f \in ipc.found : f.key \in DOMAIN sm'
            /\ ipc'.pc = "delete" => \A f \in ipc.found : NewKey(f) \in DOMAIN sm'
       /\ ReplaceDeletes =>
            \A f \in ipc.found : f.key \in DOMAIN sm' \/ NewKey(f) \in DOMAIN sm'
       /\ ReplaceInserts \/ ReplaceDeletes =>
            \A k \in (DOMAIN sm \cup DOMAIN sm') \ TouchedKeys :
                k \in DOMAIN sm /\ k \in DOMAIN sm' /\ sm'[k] = sm[k]]_vars

\* C34: replace_src_ip(A, A), an ip_change element whose old_ip equals its new_ip,
\* leaves the set of keys in the Session Map unchanged and preserves created_at_ns of
\* every entry
C34_ReplaceByItselfKeepsSessions ==
    [][(ReplaceInserts \/ ReplaceDeletes) /\ Change.old_ip = Change.new_ip =>
            /\ DOMAIN sm' = DOMAIN sm
            /\ \A k \in DOMAIN sm : sm'[k].created_at_ns = sm[k].created_at_ns]_vars

(***************************************************************************)
(* Claims about the writers of created_at_ns.                              *)
(***************************************************************************)
\* the entries that stay in the map over the step
Staying == DOMAIN sm \cap DOMAIN sm'

\* the step is the data plane's: the map is written and no handler and no pass has moved
DataPlaneWrites == sm' # sm /\ sub' = sub /\ ipc' = ipc /\ rp' = rp

\* the data plane writes last_seen_ns of entries that are due for a refresh, nothing else
DataPlaneFrame ==
    DataPlaneWrites =>
        /\ DOMAIN sm' = DOMAIN sm
        /\ \A k \in DOMAIN sm :
             /\ sm'[k].created_at_ns = sm[k].created_at_ns
             /\ sm'[k] # sm[k] => lazy_due(sm[k]) /\ sm'[k].last_seen_ns = now

\* the step is the add_rule of a submit for the key k
AddRuleOf(k) ==
    /\ sub.pc = "accepted" /\ sub'.pc = "done" /\ sub.event.activate
    /\ k = CalledKey(sub')

\* C35 as stated: created_at_ns of an entry is written once, at insertion, and never
\* changes while the entry stays in the Session Map; the data plane's refresh writes only
\* last_seen_ns, only when the entry's age is at least LAZY_UPDATE_TIMEOUT, never a key or
\* created_at_ns, and never inserts or deletes an entry
C35_CreatedAtIsWriteOnce ==
    [][/\ \A k \in Staying : sm'[k].created_at_ns = sm[k].created_at_ns
       /\ DataPlaneFrame]_vars

\* C35 amended: created_at_ns of an entry that stays in the Session Map changes only when
\* add_rule is called again for its key or when replace_src_ip writes a rewritten entry
\* over it; the data plane's refresh writes only last_seen_ns, only when the entry's age
\* is at least LAZY_UPDATE_TIMEOUT, and never inserts or deletes an entry
C35_CreatedAtChangesOnlyByRuleManager ==
    [][/\ \A k \in Staying :
            sm'[k].created_at_ns # sm[k].created_at_ns =>
                AddRuleOf(k) \/ (ReplaceInserts /\ \E f \in ipc.found : k = NewKey(f))
       /\ DataPlaneFrame]_vars

\* the data plane has refreshed an entry: its last_seen_ns is the time of the packet, its
\* created_at_ns is the one it had, and the entry is still in the map
C35_Witness ==
    /\ Len(hist) = 1 /\ hist[1].op = "packet" /\ hist[1].verdict = "PASS"
    /\ \E k \in DOMAIN hist[1].before :
         /\ hist[1].after[k].last_seen_ns # hist[1].before[k].last_seen_ns
         /\ hist[1].after[k].created_at_ns = hist[1].before[k].created_at_ns
         /\ hist[1].after[k].last_seen_ns = hist[1].at
         /\ k \in DOMAIN sm

(***************************************************************************)
(* Claims about entries whose raw value fails the size or alignment check. *)
(***************************************************************************)
\* the map m as it would be if the entries at the keys S were absent
MapWithout(m, S) == [x \in DOMAIN m \ S |-> m[x]]

\* the record r of a snapshot is the one of the key k
RecordOf(r, k) == r.src_ip = k.src_ip /\ r.dst_ip = k.dest_ip /\ r.dst_port = k.dest_port

\* a list call: no skipped entry is reported, the others are listed as if it were absent
ListSkips(h) ==
    /\ h.ok
    /\ \A k \in h.skipped : ~\E r \in h.sessions : RecordOf(r, k)
    /\ h.sessions = list_rules(MapWithout(h.before, h.skipped), h.at, h.timeout_ns, {})

\* C36: a map entry whose raw value has the wrong size or alignment is skipped by
\* cleanup_stale and by list_active: it is never deleted and never reported, it does not
\* make the pass fail, and every well-formed entry is still reaped or listed as if the
\* malformed entry were absent
C36_MalformedEntriesAreSkipped ==
    /\ [](\A i \in DOMAIN hist : hist[i].op = "list" => ListSkips(hist[i]))
    /\ [][PassReads =>
            /\ sm' = sm
            /\ rp'.stale = StaleAtRead(MapWithout(sm, rp'.skipped), rp'.now, {})
            /\ rp'.stale = {} => rp'.result = "Ok" /\ rp'.count = 0]_vars
    /\ [][PassDeletes =>
            /\ \A k \in rp.skipped : k \in DOMAIN sm => k \in DOMAIN sm' /\ sm'[k] = sm[k]
            /\ rp'.result = "Err" => DOMAIN sm \ DOMAIN sm' # rp.stale
            /\ rp'.result = "Ok" => DOMAIN sm' = DOMAIN sm \ rp.stale]_vars

\* a list call has skipped one entry and reported the other, and a pass has skipped one
\* stale entry, deleted the other and returned Ok(1)
C36_Witness ==
    /\ Len(hist) = 1 /\ hist[1].op = "list"
    /\ hist[1].skipped # {} /\ hist[1].sessions # {}
    /\ rp.pc = "cleaned" /\ rp.result = "Ok" /\ rp.count = 1
    /\ rp.skipped # {} /\ rp.skipped \subseteq DOMAIN sm
    /\ \A k \in rp.skipped : saturating_sub(rp.now, sm[k].last_seen_ns) > config.rule_timeout_ns

(***************************************************************************)
(* Claims about the bound of the Session Map.                              *)
(***************************************************************************)
\* the map holds its maximum number of entries
MapFull == Cardinality(DOMAIN sm) = MaxEntries

\* the step is the add_rule of a submit
SubmitAdds == sub.pc = "accepted" /\ sub'.pc = "done" /\ sub.event.activate

\* C37: the Session Map never holds more than its configured maximum number of entries:
\* an add_rule of a new key into a full map fails, the submit returns Ack{success=false}
\* and no existing entry is evicted or changed, whereas add_rule of a key already present
\* in a full map succeeds and refreshes it
C37_MapStaysWithinMaxEntries ==
    /\ [](Cardinality(DOMAIN sm) <= MaxEntries)
    /\ [][SubmitAdds /\ MapFull =>
            IF CalledKey(sub') \notin DOMAIN sm
            THEN /\ sub'.status = "Ok" /\ ~sub'.success
                 /\ sm' = sm
            ELSE /\ sub'.status = "Ok" /\ sub'.success
                 /\ DOMAIN sm' = DOMAIN sm
                 /\ \E t \in get_ktime_ns : sm'[CalledKey(sub')] = session_val(t, t)
                 /\ \A k \in DOMAIN sm \ {CalledKey(sub')} : sm'[k] = sm[k]]_vars

\* a submit has asked for a new session while the map was full: the Ack says
\* success = false and the map still holds its max_entries sessions, the new one not among
\* them
C37_Witness ==
    /\ sub.pc = "done" /\ sub.status = "Ok" /\ ~sub.success
    /\ sub.event.activate
    /\ MapFull
    /\ CalledKey(sub) \notin DOMAIN sm

(***************************************************************************)
(* Claims about the words Config::load reads as values.                    *)
(***************************************************************************)
\* the loop read the word at i as a flag that takes a value, and a word follows it
TakesValueAt(i) ==
    /\ i \in DOMAIN startup.arms
    /\ startup.arms[i] \notin {"unknown", "help"}
    /\ i < Len(args)

\* C38: in Config::load every flag that takes a value consumes that value: the argument
\* following a value-taking flag (--cert-pem, --cert-key and --cert-ca included) is used
\* only as the flag's value and is never interpreted again as a flag or as an unknown
\* argument
C38_ValueIsConsumed ==
    startup.pc # "start" =>
        \A i \in 1..Len(args) : TakesValueAt(i) => (i + 1) \notin DOMAIN startup.arms

====
